---- MODULE Spec2Model ----
(***************************************************************************)
(* Queue worker of youtube-watcher (backend/app/queue_worker.py): the item *)
(* state machine, the two scheduler pools with their running sets, the     *)
(* download gate, the stuck-task supervisor and the transcription          *)
(* dispatcher queue.                                                       *)
(*                                                                         *)
(* Time is kept relative to the current instant, in seconds:               *)
(*   time_since_update[i]   = now - (updated_at or created_at) of row i,   *)
(*                            kept while the row is in a stage where it is *)
(*                            read (InProgress)                            *)
(*   downloads_paused_until = _downloads_paused_until - now (None: unset;  *)
(*                            0: the instant has been reached or passed)   *)
(*   last_download_started_at = now - _last_download_started_at            *)
(* Advance(d) lets d seconds pass.                                         *)
(*                                                                         *)
(* One action is the code that runs between two suspension points of the   *)
(* asyncio event loop (await on I/O, sleep, executor, future, contended    *)
(* lock); an uncontended asyncio.Lock does not suspend.                    *)
(***************************************************************************)
EXTENDS Integers, Sequences, FiniteSets, TLC

\* ----------------------------------------------------------------- bounds
NumItems == 3
ClockStep == 1800
MaxAgeSteps == 2
MaxFailures == 2
MaxWorkers == 2
MaxPuts == 3
MaxSubs == 3
MaxPosition == 4
MaxCopies == 2
MaxJobs == 4
MaxGpus == 2

\* ------------------------------------------------------ program constants
\* transcribe_runner/config.py line 45, as the environment sets it here.
MAX_CONCURRENT_JOBS == 2
BASE_STUCK_TASK_TIMEOUT == 1800
MIN_TRANSCRIPTION_TIMEOUT == 7200
MAX_TRANSCRIPTION_TIMEOUT == 86400
TRANSCRIPTION_SPEED_FACTOR == 10
TRANSCRIPTION_BUFFER_TIME == 3600
FALLBACK_TRANSCRIPTION_TIMEOUT == 21600

None == 0 - 1
Ids == 1 .. NumItems
VideoIds == Ids
Pools == {"dl", "pv"}
Tasks == Pools \X Ids
MaxAge == MaxAgeSteps * ClockStep

PENDING == "pending"
DOWNLOADING == "downloading"
CONVERTING == "converting"
TRANSCRIBING == "transcribing"
SUMMARIZING == "summarizing"
COMPLETED == "completed"
FAILED == "failed"
\* queue_worker.py writes and tests VideoStatus.UNAVAILABLE (lines 578, 600, 1161) and
\* migrations 011 and 012 add the label to the database type, but the enum of
\* models/database.py lines 12-20 declares no such member: where it is missing the
\* lookup raises AttributeError.  settings.unavailable_declared says whether the
\* running build declares it.
UNAVAILABLE == "unavailable"
VideoStatus ==
  {PENDING, DOWNLOADING, CONVERTING, TRANSCRIBING, SUMMARIZING, COMPLETED, FAILED, UNAVAILABLE}

Max(a, b) == IF a >= b THEN a ELSE b
Min(a, b) == IF a <= b THEN a ELSE b

VARIABLES
  settings,                  \* configuration read from the environment at start
  status, progress,          \* VideoRecord.status, VideoRecord.progress
  time_since_update,         \* now - (updated_at or created_at)
  error_message,             \* VideoRecord.error_message (its kind)
  transcript,                \* VideoRecord.transcript and its .txt file: none / text / sentinel
  completed_at,              \* VideoRecord.completed_at is not null
  downloaded_at,             \* VideoRecord.downloaded_at is not null
  playlist_items,            \* ids that have a PlaylistItem row
  video_id,                  \* extract_video_id(record.url)
  video_file, wav_file,      \* video ids with a media file / a .wav file in the storage dir
  audio_duration,            \* ffprobe's duration of <video_id>.wav (0: cannot be probed)
  running_downloads, running_processing,
  tasks,                     \* live asyncio tasks per pool and id
  pc,                        \* where the task of (pool, id) is suspended
  redownload,                \* ids whose process_video_task is in the branch of lines 766-807
  stopping,                  \* asyncio.run is cancelling the tasks (line 1523, on SIGINT)
  download_executor,         \* DOWNLOAD_EXECUTOR: the calls on its threads and in its work queue
  downloads_paused_until, blocked_download_failures,
  last_download_started_at,
  download_rate_lock,        \* the task holding _download_rate_lock (NoLock: free)
  download_rate_waiters,     \* the tasks blocked on _download_rate_lock, first come first
  runner_pending_queue,      \* asyncio.Queue of the dispatcher: record ids in put order
  runner_worker,             \* per dispatcher worker: waiting / woken / posting / polling
  runner_request,            \* the record id a worker is serving (0: none)
  runner_job,                \* jobs[job_id]["status"] at the runner, of a worker's request
  runner_future,             \* per record id: none / pending / result / failed
  post_log,                  \* record ids in the order workers began their POST
  accept_log,                \* record ids in the order the runner created their jobs
  put_log,                   \* record ids in the order executors put them on the queue
  probe_in, timeout_out,     \* supervisor timeout computation: probe result and timeout
  subscriptions,             \* channel_subscriptions, committed rows by id
  video_urls,                \* number of video_records per (user_id, url) made by checks
  playlist_positions,        \* number of playlist_items per position of the auto playlist
  poll,                      \* per _subscription_check_task: its place and its session
  resolver,                  \* _process_pending_subscriptions_task: its place and session
  jobs,                      \* transcribe_runner: jobs, per job id its status, result, error
  job_queue,                 \* transcribe_runner: _job_queue, job ids in put order
  job_run,                   \* per job: where its _run_job is and the device_id it was given
  disabled_devices,          \* transcribe_runner: _disabled_devices
  device_counter,            \* transcribe_runner: _device_counter % NUM_GPUS
  whisper_services,          \* per device: none / healthy / unhealthy WhisperService
  active_jobs_per_device,    \* transcribe_runner: _active_jobs_per_device
  num_gpus,                  \* transcribe_runner: NUM_GPUS
  release_gpu_when_idle,     \* transcribe_runner: WHISPER_RELEASE_GPU_WHEN_IDLE
  unhealthy_log,             \* devices of the "Marking device ... as unhealthy" warnings
  subscribe_response         \* status code and row id of the last POST /api/subscriptions

rowVars ==
  <<status, progress, time_since_update, error_message, transcript, completed_at,
    downloaded_at>>
diskVars == <<playlist_items, video_id, video_file, wav_file, audio_duration>>
poolVars == <<running_downloads, running_processing, tasks, pc, redownload, stopping,
              download_executor>>
gateVars ==
  <<downloads_paused_until, blocked_download_failures, last_download_started_at,
    download_rate_lock, download_rate_waiters>>
runnerVars ==
  <<runner_pending_queue, runner_worker, runner_request, runner_job, runner_future,
    post_log, put_log, accept_log>>
timeoutVars == <<probe_in, timeout_out>>
subVars ==
  <<subscriptions, video_urls, playlist_positions, poll, resolver, subscribe_response>>
serviceVars ==
  <<jobs, job_queue, job_run, disabled_devices, device_counter, whisper_services,
    active_jobs_per_device, num_gpus, release_gpu_when_idle, unhealthy_log>>
\* What lives next to the queue: the subscriptions and the transcribe runner service.
sideVars == <<subVars, serviceVars>>
queueVars ==
  <<settings, rowVars, diskVars, poolVars, gateVars, runnerVars, timeoutVars>>
vars == <<settings, rowVars, diskVars, poolVars, gateVars, runnerVars, timeoutVars, sideVars>>

\* lines 35-36: the pool capacities, and line 1511: the number of dispatcher workers.
DOWNLOAD_CONCURRENCY == Max(1, settings.queue_download_concurrency)
PROCESS_CONCURRENCY == Max(1, settings.queue_process_concurrency)
Workers == 1 .. Max(1, settings.transcribe_runner_concurrency)
NoLock == <<>>

\* --------------------------------------------------------------- Job Store
\* A commit that changes a column runs onupdate=func.now() on updated_at
\* (models/database.py:70); a commit with no net change issues no UPDATE.
Touch(i, st, pr) ==
  IF st # status[i] \/ pr # progress[i] THEN 0 ELSE time_since_update[i]

\* created_at of the rows: in id order, rows 2 and 3 created in the same instant.
created_at(i) == IF i = 1 THEN 1 ELSE 2

\* ------------------------------------------------------------ Download Gate
\* _get_download_pause_remaining_seconds: the value returned.
PauseRemaining ==
  IF downloads_paused_until = None THEN 0 ELSE Max(0, downloads_paused_until)

\* _get_download_pause_remaining_seconds: an expired pause is cleared and the
\* counter reset.
PauseExpired == downloads_paused_until # None /\ downloads_paused_until <= 0
\* The counter an expiry check would leave if it cleared the pause only.
FailuresAfterCheckKept == blocked_download_failures
PausedUntilAfterCheck == IF PauseExpired THEN None ELSE downloads_paused_until
FailuresAfterCheck == IF PauseExpired THEN 0 ELSE blocked_download_failures

\* A spacing that lets the caller through without the sleep.
SpacingLockedNoSleep(t) ==
  IF settings.queue_download_min_interval_seconds <= 0
    THEN [pc |-> "downloading", last |-> last_download_started_at, lock |-> download_rate_lock]
  ELSE [pc |-> "downloading", last |-> 0, lock |-> NoLock]

\* _wait_for_download_spacing (lines 67-92) once the caller has the lock or needs
\* none: the pc the caller reaches and the pacing state it leaves.
SpacingLocked(t) ==
  IF settings.queue_download_min_interval_seconds <= 0
    THEN [pc |-> "downloading", last |-> last_download_started_at, lock |-> download_rate_lock]
  ELSE IF last_download_started_at = None
    THEN [pc |-> "downloading", last |-> 0, lock |-> NoLock]
  ELSE IF settings.queue_download_min_interval_seconds - last_download_started_at > 0
    THEN [pc |-> "spacing_sleep", last |-> last_download_started_at, lock |-> t]
  ELSE [pc |-> "downloading", last |-> 0, lock |-> NoLock]

\* _wait_for_download_spacing from its start: asyncio.Lock makes the caller wait when
\* the lock is held or others wait for it already.
SpacingResult(t) ==
  IF /\ settings.queue_download_min_interval_seconds > 0
     /\ (download_rate_lock # NoLock \/ download_rate_waiters # <<>>)
    THEN [pc |-> "wait_rate_lock", last |-> last_download_started_at, lock |-> download_rate_lock]
    ELSE SpacingLocked(t)

\* await _wait_if_downloads_paused(); await _wait_for_download_spacing(); then the
\* downloader call (lines 504-511, 628-635, 776-783).
GateResult(t) ==
  IF PauseRemaining > 0
    THEN [pc |-> "wait_paused", last |-> last_download_started_at, lock |-> download_rate_lock]
    ELSE SpacingResult(t)

\* The pacing state a task leaves when it runs into _wait_for_download_spacing.
EnterSpacing(t, g) ==
  /\ last_download_started_at' = g.last
  /\ download_rate_lock' = g.lock
  /\ download_rate_waiters' =
       IF g.pc = "wait_rate_lock" THEN Append(download_rate_waiters, t)
       ELSE download_rate_waiters

\* The gate state a task leaves when it runs into the gate.
EnterGate(t, g) ==
  /\ downloads_paused_until' = PausedUntilAfterCheck
  /\ blocked_download_failures' = FailuresAfterCheck
  /\ EnterSpacing(t, g)

\* A registration that starts the window again at every failure from the threshold
\* on, to compare RegisterBlocked with.
RegisterBlockedRestart ==
  LET count == blocked_download_failures + 1 IN
  /\ blocked_download_failures' = count
  /\ downloads_paused_until' =
       IF count < Max(1, settings.queue_blocked_threshold) THEN downloads_paused_until
       ELSE settings.queue_blocked_pause_seconds

\* _register_blocked_download_failure (lines 122-151).
RegisterBlocked ==
  LET count == blocked_download_failures + 1 IN
  /\ blocked_download_failures' = count
  /\ downloads_paused_until' =
       IF downloads_paused_until # None THEN downloads_paused_until
       ELSE IF count < Max(1, settings.queue_blocked_threshold) THEN None
       ELSE IF settings.queue_blocked_pause_seconds <= 0 THEN 365 * 100 * 86400
       ELSE settings.queue_blocked_pause_seconds

\* _reset_blocked_download_counter_on_success (lines 154-157).
ResetBlockedOnSuccess ==
  /\ blocked_download_failures' = 0
  /\ UNCHANGED downloads_paused_until

\* ------------------------------------------------------ Stuck-Task Supervisor
\* A timeout without the one-hour buffer, to compare TranscriptionTimeout with.
TranscriptionTimeoutNoBuffer(d) ==
  IF d # 0
    THEN Max(MIN_TRANSCRIPTION_TIMEOUT,
             Min(d * TRANSCRIPTION_SPEED_FACTOR, MAX_TRANSCRIPTION_TIMEOUT))
    ELSE FALLBACK_TRANSCRIPTION_TIMEOUT

\* lines 1389-1394: the timeout of a transcribing row from the probed duration.
TranscriptionTimeout(d) ==
  IF d # 0
    THEN Max(MIN_TRANSCRIPTION_TIMEOUT,
             Min(d * TRANSCRIPTION_SPEED_FACTOR + TRANSCRIPTION_BUFFER_TIME,
                 MAX_TRANSCRIPTION_TIMEOUT))
    ELSE FALLBACK_TRANSCRIPTION_TIMEOUT

\* lines 1367-1387: ffprobe of <video_id>.wav; 0 stands for None.
ProbedDuration(i) ==
  IF video_id[i] \in wav_file THEN audio_duration[video_id[i]] ELSE 0

\* lines 1365-1396.
StuckTimeout(i) ==
  IF status[i] = TRANSCRIBING
    THEN TranscriptionTimeout(ProbedDuration(i))
    ELSE BASE_STUCK_TASK_TIMEOUT

\* A supervisor that leaves downloading rows alone, to compare StuckCandidates with.
StuckCandidatesHeavy == {i \in Ids : status[i] \in {TRANSCRIBING, SUMMARIZING}}

\* lines 1347-1355: the rows the supervisor scans.
StuckCandidates == {i \in Ids : status[i] \in {DOWNLOADING, TRANSCRIBING, SUMMARIZING}}

\* A supervisor that acts at the timeout already, to compare Stuck with.
StuckAtTimeout(i) == i \in StuckCandidates /\ time_since_update[i] >= StuckTimeout(i)

\* lines 1398: the rows it acts on.
Stuck(i) == i \in StuckCandidates /\ time_since_update[i] > StuckTimeout(i)

\* A supervisor that resets every stuck row to pending, to compare SupervisedStatus
\* with.
SupervisedStatusReset(i) == IF Stuck(i) THEN PENDING ELSE status[i]

\* lines 1401-1426: the row after the supervisor's pass.
SupervisedStatus(i) ==
  IF Stuck(i) THEN (IF status[i] = DOWNLOADING THEN FAILED ELSE PENDING) ELSE status[i]
SupervisedProgress(i) ==
  IF Stuck(i) /\ status[i] # DOWNLOADING THEN 0 ELSE progress[i]
SupervisedError(i) ==
  IF Stuck(i)
    THEN (IF status[i] = DOWNLOADING THEN "download_stuck" ELSE "stuck_reset")
    ELSE error_message[i]

\* ----------------------------------------------------------- Pool Scheduler
\* lines 1444-1448: created_at DESC, id DESC.
PendingBefore(j, i) ==
  \/ created_at(j) > created_at(i)
  \/ created_at(j) = created_at(i) /\ j > i

\* A download pool that also picks failed rows, to compare PendingDownloads with.
PendingOrFailedDownloads(st, slots) ==
  LET S == {i \in Ids : st[i] \in {PENDING, FAILED}} IN
  {i \in S : Cardinality({j \in S : PendingBefore(j, i)}) < slots}

\* A download pool whose query has no limit, to compare PendingDownloads with.
PendingDownloadsNoLimit(st, slots) == {i \in Ids : st[i] = PENDING}

\* lines 1441-1448: the rows the download pool picks, st being the stored statuses:
\* the first rows of that order, as many as there are slots.
PendingDownloads(st, slots) ==
  LET S == {i \in Ids : st[i] = PENDING} IN
  {i \in S : Cardinality({j \in S : PendingBefore(j, i)}) < slots}

\* A download pool without the check of line 1451, to compare DownloadStarts with.
DownloadStartsNoSkip(st) ==
  IF PauseRemaining > 0 THEN {}
  ELSE LET download_slots == DOWNLOAD_CONCURRENCY - Cardinality(running_downloads) IN
       IF download_slots > 0 THEN PendingDownloads(st, download_slots) ELSE {}

\* lines 1450-1454: the ids a tick starts a download task for.
DownloadStarts(st) ==
  IF PauseRemaining > 0 THEN {}
  ELSE LET download_slots == DOWNLOAD_CONCURRENCY - Cardinality(running_downloads) IN
       IF download_slots > 0
         THEN {i \in PendingDownloads(st, download_slots) : i \notin running_downloads}
         ELSE {}

\* lines 1459-1467: the rows the heavy pool looks at.
ReadyStatuses == {CONVERTING, TRANSCRIBING, SUMMARIZING}

\* lines 1462-1467: created_at DESC, updated_at DESC NULLS LAST, id DESC.
ReadyBefore(age, j, i) ==
  \/ created_at(j) > created_at(i)
  \/ created_at(j) = created_at(i) /\ age[j] < age[i]
  \/ created_at(j) = created_at(i) /\ age[j] = age[i] /\ j > i

\* lines 1459-1467: the first rows of that order, as many as there are slots.
ReadyRecords(st, age, slots) ==
  LET S == {i \in Ids : st[i] \in ReadyStatuses} IN
  {i \in S : Cardinality({j \in S : ReadyBefore(age, j, i)}) < slots}

\* lines 1469-1473: the ids a tick starts a processing task for; rd is
\* running_downloads after the download pool was scheduled.
ProcessingStarts(st, age, rd) ==
  LET process_slots == PROCESS_CONCURRENCY - Cardinality(running_processing) IN
  IF process_slots > 0
    THEN {i \in ReadyRecords(st, age, process_slots) :
            i \notin running_processing /\ i \notin rd}
    ELSE {}

\* asyncio.create_task(_run_download(id)) / asyncio.create_task(_run_processing(id)).
CreateTasks(dl, pv) ==
  /\ tasks' = [t \in Tasks |->
       IF (t[1] = "dl" /\ t[2] \in dl) \/ (t[1] = "pv" /\ t[2] \in pv)
         THEN tasks[t] + 1 ELSE tasks[t]]
  /\ pc' = [t \in Tasks |->
       IF pc[t] = "idle" /\ ((t[1] = "dl" /\ t[2] \in dl) \/ (t[1] = "pv" /\ t[2] \in pv))
         THEN "queued" ELSE pc[t]]

\* One iteration of worker_loop (lines 1342-1497): the supervisor's pass, then the
\* download pool, then the heavy pool.
Tick ==
  LET st == [i \in Ids |-> SupervisedStatus(i)]
      age == [i \in Ids |-> IF Stuck(i) THEN 0 ELSE time_since_update[i]]
      dl == DownloadStarts(st)
      rd == running_downloads \cup dl
      pv == ProcessingStarts(st, age, rd)
  IN
  /\ status' = st
  /\ progress' = [i \in Ids |-> SupervisedProgress(i)]
  /\ error_message' = [i \in Ids |-> SupervisedError(i)]
  /\ time_since_update' = age
  /\ downloads_paused_until' = PausedUntilAfterCheck
  /\ blocked_download_failures' = FailuresAfterCheck
  /\ running_downloads' = rd
  /\ running_processing' = running_processing \cup pv
  /\ CreateTasks(dl, pv)
  /\ UNCHANGED <<settings, transcript, completed_at, downloaded_at, diskVars, redownload, stopping,
                 download_executor, last_download_started_at,
                 download_rate_lock, download_rate_waiters, runnerVars, timeoutVars, sideVars>>

\* The stages in which the age of a row is read: by the supervisor (line 1364) or by
\* the heavy pool's ordering (line 1465).  Every change of stage stamps updated_at, so
\* the age a row had outside these stages is never seen.
InProgress == {DOWNLOADING, CONVERTING, TRANSCRIBING, SUMMARIZING}

\* d seconds pass.
Advance(d) ==
  /\ time_since_update' = [i \in Ids |->
       IF status[i] \in InProgress THEN Min(time_since_update[i] + d, MaxAge)
       ELSE time_since_update[i]]
  /\ downloads_paused_until' =
       IF downloads_paused_until = None THEN None ELSE Max(0, downloads_paused_until - d)
  /\ last_download_started_at' =
       IF last_download_started_at = None THEN None
       ELSE Min(last_download_started_at + d, MaxAge)
  /\ <<time_since_update', downloads_paused_until', last_download_started_at'>>
       # <<time_since_update, downloads_paused_until, last_download_started_at>>
  /\ UNCHANGED <<settings, status, progress, error_message, transcript, completed_at, downloaded_at, diskVars, poolVars,
                 blocked_download_failures, download_rate_lock, download_rate_waiters,
                 runnerVars, timeoutVars, sideVars>>

\* ------------------------------------------------------------ Stage Executors
\* async with download_sem / process_sem (lines 1328-1340): a slot is free.
Capacity(pool) == IF pool = "dl" THEN DOWNLOAD_CONCURRENCY ELSE PROCESS_CONCURRENCY
SemFree(pool) ==
  Cardinality({j \in Ids : pc[<<pool, j>>] \notin {"idle", "queued"}}) < Capacity(pool)

\* The calls that run_in_executor hands to DOWNLOAD_EXECUTOR (lines 476, 508, 549, 632,
\* 673, 700, 741, 780, 857, 877, 1036, 1065), by the pc of the task that awaits them.
DownloadPcs == {"downloading", "thumbnail", "thumbnail_sub"}
HeavyPcs == {"converting", "pipeline", "asr"}
ExecutorPcs == DownloadPcs \cup HeavyPcs

\* A worker thread of DOWNLOAD_EXECUTOR is running the call that task t awaits.
OnThread(t) == t \in download_executor.threads

\* ThreadPoolExecutor(max_workers=DOWNLOAD_CONCURRENCY) (line 37) once the call that
\* task t awaited has returned and t has gone on to pc p: the freed thread takes the
\* oldest call of the work queue, and the call t submits at p gets a thread if fewer
\* than max_workers are busy and waits in the work queue otherwise.
ExecutorAfter(t, p) ==
  LET waiting == SelectSeq(download_executor.work_queue, LAMBDA u : u # t)
      handover == OnThread(t) /\ waiting # <<>>
      threads == (download_executor.threads \ {t})
                   \cup (IF handover THEN {Head(waiting)} ELSE {})
      queue == IF handover THEN Tail(waiting) ELSE waiting
  IN IF p \notin ExecutorPcs THEN [threads |-> threads, work_queue |-> queue]
     ELSE IF Cardinality(threads) < DOWNLOAD_CONCURRENCY
       THEN [threads |-> threads \cup {t}, work_queue |-> queue]
       ELSE [threads |-> threads, work_queue |-> Append(queue, t)]

\* A wrapper without the `finally`, to compare Finish with.
FinishNoDiscard(t) ==
  /\ tasks' = [tasks EXCEPT ![t] = Max(0, @ - 1)]
  /\ pc' = [pc EXCEPT ![t] = IF tasks[t] > 1 THEN "queued" ELSE "idle"]
  /\ redownload' = IF t[1] = "pv" THEN redownload \ {t[2]} ELSE redownload
  /\ download_executor' = ExecutorAfter(t, "idle")
  /\ UNCHANGED <<running_downloads, running_processing, stopping>>

\* finally: running_downloads.discard(rid) / running_processing.discard(rid)
\* (lines 1332-1333, 1339-1340), and the task ends.
Finish(t) ==
  /\ running_downloads' = IF t[1] = "dl" THEN running_downloads \ {t[2]} ELSE running_downloads
  /\ running_processing' = IF t[1] = "pv" THEN running_processing \ {t[2]} ELSE running_processing
  /\ tasks' = [tasks EXCEPT ![t] = Max(0, @ - 1)]
  /\ pc' = [pc EXCEPT ![t] = IF tasks[t] > 1 THEN "queued" ELSE "idle"]
  /\ redownload' = IF t[1] = "pv" THEN redownload \ {t[2]} ELSE redownload
  /\ download_executor' = ExecutorAfter(t, "idle")
  /\ UNCHANGED stopping

\* The task suspends at pc p and stays in its running set.
Suspend(t, p) ==
  /\ pc' = [pc EXCEPT ![t] = p]
  /\ download_executor' = ExecutorAfter(t, p)
  /\ UNCHANGED <<running_downloads, running_processing, tasks, redownload, stopping>>

\* except Exception (lines 572-583, 1155-1166): the row is marked unavailable for a
\* membership-only message and failed otherwise, and the task ends.  Where the enum
\* has no UNAVAILABLE the handler itself raises at lines 578 and 1161 before it writes
\* anything, and the row stays as it was last committed.
Fail(t, kind) ==
  /\ IF kind = "membership" /\ ~settings.unavailable_declared
       THEN UNCHANGED <<status, error_message, time_since_update>>
       ELSE /\ status' = [status EXCEPT ![t[2]] =
                 IF kind = "membership" THEN UNAVAILABLE ELSE FAILED]
            /\ error_message' = [error_message EXCEPT ![t[2]] = kind]
            /\ time_since_update' = [time_since_update EXCEPT ![t[2]] = 0]
  /\ Finish(t)
  /\ UNCHANGED <<progress, transcript, completed_at, downloaded_at>>

\* _run_download / _run_processing (lines 1328-1340) when their task is cancelled: the
\* `finally` with the discard is entered only once `async with sem` has the slot.
Discarded(t) == pc[t] # "queued"

\* The process is stopped (lines 1522-1524): asyncio.run cancels the scheduler loop and
\* every task.  A task suspended inside its executor gets CancelledError there, which
\* no `except Exception` catches: the row is left as it is and the wrapper's `finally`
\* runs; a task that is still waiting for its slot ends in `async with sem`.
Cancel(t) ==
  /\ pc[t] # "idle"
  /\ stopping' = TRUE
  /\ download_executor' = [download_executor EXCEPT
       !.work_queue = SelectSeq(@, LAMBDA u : u # t)]
  /\ tasks' = [tasks EXCEPT ![t] = 0]
  /\ pc' = [pc EXCEPT ![t] = "idle"]
  /\ running_downloads' =
       IF t[1] = "dl" /\ Discarded(t) THEN running_downloads \ {t[2]} ELSE running_downloads
  /\ running_processing' =
       IF t[1] = "pv" /\ Discarded(t) THEN running_processing \ {t[2]} ELSE running_processing
  /\ redownload' = IF t[1] = "pv" THEN redownload \ {t[2]} ELSE redownload
  /\ download_rate_lock' = IF download_rate_lock = t THEN NoLock ELSE download_rate_lock
  /\ download_rate_waiters' = SelectSeq(download_rate_waiters, LAMBDA u : u # t)
  /\ UNCHANGED <<settings, rowVars, diskVars, downloads_paused_until,
                 blocked_download_failures, last_download_started_at, runnerVars,
                 timeoutVars, sideVars>>

\* download_only_task from its start to its first suspension (lines 446-511).
DlStart(i) ==
  LET t == <<"dl", i>> IN
  /\ pc[t] = "queued"
  /\ SemFree("dl")
  /\ IF status[i] \in {CONVERTING, TRANSCRIBING, SUMMARIZING, COMPLETED, FAILED}
       THEN /\ Finish(t)
            /\ UNCHANGED <<rowVars, gateVars>>
     ELSE IF video_id[i] \in video_file
       THEN /\ status' = [status EXCEPT ![i] = DOWNLOADING]
            /\ progress' = [progress EXCEPT ![i] = Max(@, 25)]
            /\ time_since_update' = [time_since_update EXCEPT ![i] = 0]
            /\ Suspend(t, "thumbnail")
            /\ downloaded_at' = [downloaded_at EXCEPT ![i] = TRUE]
            /\ UNCHANGED <<error_message, transcript, completed_at, gateVars>>
     ELSE LET g == GateResult(t) IN
            /\ status' = [status EXCEPT ![i] = DOWNLOADING]
            /\ time_since_update' =
                 [time_since_update EXCEPT ![i] = Touch(i, DOWNLOADING, progress[i])]
            /\ EnterGate(t, g)
            /\ Suspend(t, g.pc)
            /\ UNCHANGED <<progress, error_message, transcript, completed_at, downloaded_at>>
  /\ UNCHANGED <<settings, diskVars, runnerVars, timeoutVars, sideVars>>

\* _wait_if_downloads_paused (lines 112-119): the sleeping task finds the pause over.
GateWake(t) ==
  /\ pc[t] = "wait_paused"
  /\ PauseRemaining = 0
  /\ LET g == SpacingResult(t) IN
       /\ EnterGate(t, g)
       /\ Suspend(t, g.pc)
  /\ UNCHANGED <<settings, rowVars, diskVars, runnerVars, timeoutVars, sideVars>>

\* _wait_for_download_spacing (line 80): the first waiter gets _download_rate_lock.
RateLockAcquire(t) ==
  /\ pc[t] = "wait_rate_lock"
  /\ download_rate_lock = NoLock
  /\ download_rate_waiters # <<>> /\ Head(download_rate_waiters) = t
  /\ LET g == SpacingLocked(t) IN
       /\ last_download_started_at' = g.last
       /\ download_rate_lock' = g.lock
       /\ download_rate_waiters' = Tail(download_rate_waiters)
       /\ Suspend(t, g.pc)
  /\ UNCHANGED <<settings, rowVars, diskVars, downloads_paused_until,
                 blocked_download_failures, runnerVars, timeoutVars, sideVars>>

\* _wait_for_download_spacing (lines 90-92): the sleep is over.
SpacingWake(t) ==
  /\ pc[t] = "spacing_sleep"
  /\ last_download_started_at >= settings.queue_download_min_interval_seconds
  /\ last_download_started_at' = 0
  /\ download_rate_lock' = NoLock
  /\ Suspend(t, "downloading")
  /\ UNCHANGED <<settings, rowVars, diskVars, downloads_paused_until,
                 blocked_download_failures, download_rate_waiters, runnerVars, timeoutVars, sideVars>>

\* download_progress (lines 499-502, 624-626): p is the downloader's percentage.
DownloadFractions == {40, 100}
DownloadProgress(t, p) ==
  LET pr == Min((p * 25) \div 100, 25) IN
  /\ pc[t] = "downloading"
  /\ OnThread(t)
  /\ pr # progress[t[2]]
  /\ progress' = [progress EXCEPT ![t[2]] = pr]
  /\ time_since_update' = [time_since_update EXCEPT ![t[2]] = 0]
  /\ UNCHANGED <<settings, status, error_message, transcript, completed_at, downloaded_at, diskVars, poolVars, gateVars,
                 runnerVars, timeoutVars, sideVars>>

\* ---------------------------------------------------- Transcription Dispatcher
\* A queue that puts the newest request first, to compare PutRequest with.
PutRequestFront(i) ==
  /\ Len(put_log) < MaxPuts
  /\ runner_pending_queue' = <<i>> \o runner_pending_queue
  /\ put_log' = Append(put_log, i)
  /\ runner_future' = [runner_future EXCEPT ![i] = "pending"]
  /\ runner_worker' =
       IF {w \in Workers : runner_worker[w] = "waiting"} = {} THEN runner_worker
       ELSE [runner_worker EXCEPT
               ![CHOOSE w \in Workers : runner_worker[w] = "waiting"] = "woken"]
  /\ UNCHANGED <<runner_request, runner_job, post_log, accept_log>>

\* asyncio.Queue.put_nowait (line 375): the request is appended and the first
\* worker blocked in get() is woken.
Waiting == {w \in Workers : runner_worker[w] = "waiting"}
PutRequest(i) ==
  /\ Len(put_log) < MaxPuts
  /\ runner_pending_queue' = Append(runner_pending_queue, i)
  /\ put_log' = Append(put_log, i)
  /\ runner_future' = [runner_future EXCEPT ![i] = "pending"]
  /\ runner_worker' =
       IF Waiting = {} THEN runner_worker
       ELSE [runner_worker EXCEPT ![CHOOSE w \in Waiting : \A v \in Waiting : w <= v] = "woken"]
  /\ UNCHANGED <<runner_request, runner_job, post_log, accept_log>>

\* A worker that goes back to waiting whatever the queue holds, to compare WorkerLoop
\* with.
WorkerLoopIdle(w, fut) ==
  /\ runner_future' = fut
  /\ runner_worker' = [runner_worker EXCEPT ![w] = "waiting"]
  /\ runner_request' = [runner_request EXCEPT ![w] = 0]
  /\ runner_job' = [runner_job EXCEPT ![w] = "none"]
  /\ UNCHANGED <<runner_pending_queue, post_log>>

\* The number of requests at the head of q whose WAV is missing:
\* _transcribe_via_runner_impl returns None for them without suspending (lines 289-291).
RECURSIVE MissingPrefix(_)
MissingPrefix(q) ==
  IF q = <<>> \/ video_id[Head(q)] \in wav_file THEN 0 ELSE 1 + MissingPrefix(Tail(q))

\* _runner_worker (lines 340-345), from `await _runner_pending_queue.get()` to the
\* next suspension, fut being the futures as the previous request left them: the
\* requests without a WAV are answered None; then with an empty queue the worker
\* blocks in get(), otherwise it takes the head and _transcribe_via_runner_impl runs
\* up to its POST (line 297).
WorkerLoop(w, fut) ==
  LET n == MissingPrefix(runner_pending_queue)
      missing == {runner_pending_queue[k] : k \in 1 .. n}
      q == SubSeq(runner_pending_queue, n + 1, Len(runner_pending_queue))
      answered == [r \in Ids |-> IF r \in missing THEN "failed" ELSE fut[r]]
  IN
  /\ runner_future' = answered
  /\ runner_job' = [runner_job EXCEPT ![w] = "none"]
  /\ IF q = <<>>
       THEN /\ runner_worker' = [runner_worker EXCEPT ![w] = "waiting"]
            /\ runner_request' = [runner_request EXCEPT ![w] = 0]
            /\ runner_pending_queue' = q
            /\ UNCHANGED post_log
       ELSE /\ runner_worker' = [runner_worker EXCEPT ![w] = "posting"]
            /\ runner_request' = [runner_request EXCEPT ![w] = Head(q)]
            /\ runner_pending_queue' = Tail(q)
            /\ post_log' = Append(post_log, Head(q))

\* A worker that goes round its loop without completing the future, to compare
\* ReturnAndTakeNext with.
ReturnUnanswered(w, res) == WorkerLoop(w, runner_future)

\* The request of worker w returns res (future.set_result, line 345) and the worker
\* goes round its loop.
ReturnAndTakeNext(w, res) ==
  WorkerLoop(w, [runner_future EXCEPT ![runner_request[w]] = res])

\* A woken worker resumes in get() (line 342).
WorkerResume(w) ==
  /\ runner_worker[w] = "woken"
  /\ WorkerLoop(w, runner_future)
  /\ UNCHANGED <<settings, rowVars, diskVars, poolVars, gateVars, put_log, accept_log,
                 timeoutVars, sideVars>>

\* POST /transcribe returns (lines 297-303): 202 with the id of a job that the runner
\* created as pending (transcribe_runner/main.py line 270), or an error.
PostDone(w, accepted) ==
  /\ runner_worker[w] = "posting"
  /\ IF accepted
       THEN /\ runner_worker' = [runner_worker EXCEPT ![w] = "polling"]
            /\ runner_job' = [runner_job EXCEPT ![w] = "pending"]
            /\ accept_log' = Append(accept_log, runner_request[w])
            /\ UNCHANGED <<runner_pending_queue, runner_request, runner_future, post_log>>
       ELSE /\ ReturnAndTakeNext(w, "failed")
            /\ UNCHANGED accept_log
  /\ UNCHANGED <<settings, rowVars, diskVars, poolVars, gateVars, put_log, timeoutVars, sideVars>>

\* The runner ends the job of worker w's request (transcribe_runner/main.py _run_job,
\* lines 171, 202, 212): completed or failed.
RunnerJobDone(w, st) ==
  /\ runner_worker[w] = "polling"
  /\ runner_job[w] = "pending"
  /\ runner_job' = [runner_job EXCEPT ![w] = st]
  /\ UNCHANGED <<settings, rowVars, diskVars, poolVars, gateVars, runner_pending_queue,
                 runner_worker, runner_request, runner_future, post_log, put_log,
                 accept_log, timeoutVars, sideVars>>


\* The HTTP status of GET /transcribe/{job_id} (transcribe_runner/main.py lines
\* 281-303): 202 while pending or processing, 500 for a failed job, 200 for a
\* completed one.
HttpStatus(job) == IF job = "pending" THEN 202 ELSE IF job = "failed" THEN 500 ELSE 200

\* One poll (lines 309-316): the GET fails when the runner cannot be reached, and
\* r.raise_for_status() raises for a 4xx or 5xx answer; both are logged as a poll error.
PollError(w, reachable) == ~reachable \/ HttpStatus(runner_job[w]) >= 400

\* _update_runner_record_progress (lines 262-274) from a poll that found the job
\* running (line 326, p its progress in percent) or from a poll error (line 315, p = 0);
\* the loop goes on.
PollFractions == {0, 50}
PollProgress(w, p) ==
  LET i == runner_request[w]
      pr == 60 + (p * 30) \div 100 IN
  /\ runner_worker[w] = "polling"
  /\ \E reachable \in BOOLEAN :
       IF PollError(w, reachable) THEN p = 0 ELSE runner_job[w] = "pending"
  /\ pr # progress[i] \/ time_since_update[i] # 0
  /\ progress' = [progress EXCEPT ![i] = pr]
  /\ time_since_update' = [time_since_update EXCEPT ![i] = 0]
  /\ UNCHANGED <<settings, status, error_message, transcript, completed_at, downloaded_at, diskVars, poolVars, gateVars,
                 runnerVars, timeoutVars, sideVars>>

\* The poll loop ends (lines 317-328): a poll read status completed, a poll read
\* status failed, or the overall timeout was reached.
PollOutcomes == {"completed", "failed", "timeout"}
PollDone(w, outcome) ==
  /\ runner_worker[w] = "polling"
  /\ outcome # "timeout" => ~PollError(w, TRUE) /\ runner_job[w] = outcome
  /\ ReturnAndTakeNext(w, IF outcome = "completed" THEN "result" ELSE "failed")
  /\ UNCHANGED <<settings, rowVars, diskVars, poolVars, gateVars, put_log, accept_log,
                 timeoutVars, sideVars>>

\* ------------------------------------------- Stage Executors (continued)
Truthy(tr) == tr \in {"text", "sentinel"}

\* Step 4 up to `await llm_service.generate_summary` (lines 1105-1129).
Step4(s, p, tr) ==
  [st |-> IF s \in {TRANSCRIBING, SUMMARIZING} THEN SUMMARIZING ELSE s,
   pr |-> IF s \in {TRANSCRIBING, SUMMARIZING} THEN Max(p, 95) ELSE p,
   tr |-> tr, pc |-> "summary", put |-> FALSE]

\* Step 3 up to its first suspension (lines 886-1038), and on into step 4 when the
\* transcript exists or transcription is unavailable.
Step3(s, p, tr) ==
  IF tr = "text" THEN Step4(s, 95, tr)
  ELSE LET resume == s \in {CONVERTING, TRANSCRIBING}
           s1 == IF resume THEN TRANSCRIBING ELSE s
           p1 == IF resume THEN Max(p, 50) ELSE p IN
       IF settings.transcribe_runner_url
         THEN [st |-> s1, pr |-> p1, tr |-> tr, pc |-> "runner_wait", put |-> TRUE]
       ELSE IF ~settings.whisper_available
         THEN Step4(s1, 90, "sentinel")
       ELSE [st |-> s1, pr |-> 55, tr |-> tr, pc |-> "pipeline", put |-> FALSE]

\* An executor that never converts, to compare Step2 with.
Step2NoConvert(i, s, p, tr) == Step3(s, p, tr)

\* Step 2 up to `convert_to_audio` (lines 848-884), and on into step 3 when there is
\* nothing to convert.
Step2(i, s, p, tr) ==
  IF s \in {DOWNLOADING, CONVERTING}
    THEN [st |-> CONVERTING, pr |-> Max(p, 25), tr |-> tr, pc |-> "converting", put |-> FALSE]
  ELSE IF Truthy(tr) THEN Step3(s, p, tr)
  ELSE IF video_id[i] \notin wav_file
    THEN [st |-> CONVERTING, pr |-> 25, tr |-> tr, pc |-> "converting", put |-> FALSE]
  ELSE Step3(s, p, tr)

\* An executor without the playlist short-circuit, to compare AfterDownload with.
AfterDownloadNoPlaylist(i, s, p, tr, sub) ==
  IF sub
    THEN [st |-> SUMMARIZING, pr |-> 50, tr |-> tr, pc |-> "format_subtitle", put |-> FALSE]
  ELSE Step2(i, s, p, tr)

\* The playlist and subtitle short-circuits (lines 809-846), then step 2.
AfterDownload(i, s, p, tr, sub) ==
  IF i \in playlist_items
    THEN [st |-> COMPLETED, pr |-> 100, tr |-> tr, pc |-> "idle", put |-> FALSE]
  ELSE IF sub
    THEN [st |-> SUMMARIZING, pr |-> 50, tr |-> tr, pc |-> "format_subtitle", put |-> FALSE]
  ELSE Step2(i, s, p, tr)

\* The row and the task after a run of process_video_task code that ends as r says;
\* dirty: a commit on the way changed a column not modelled here.
Apply(i, r, dirty) ==
  LET t == <<"pv", i>> IN
  /\ status' = [status EXCEPT ![i] = r.st]
  /\ progress' = [progress EXCEPT ![i] = r.pr]
  /\ transcript' = [transcript EXCEPT ![i] = r.tr]
  /\ completed_at' =
       [completed_at EXCEPT ![i] = IF r.st = COMPLETED /\ r.pc = "idle" THEN TRUE ELSE @]
  /\ downloaded_at' = [downloaded_at EXCEPT ![i] = @ \/ pc[t] = "downloading"]
  /\ time_since_update' = [time_since_update EXCEPT ![i] =
       IF dirty \/ r.tr # transcript[i] THEN 0 ELSE Touch(i, r.st, r.pr)]
  /\ IF r.pc = "idle" THEN Finish(t) ELSE Suspend(t, r.pc)
  /\ IF r.put THEN PutRequest(i) ELSE UNCHANGED runnerVars
  /\ UNCHANGED error_message

\* The downloader call returns or raises (lines 512-543, 636-667, 784-807); sub: it
\* brought a subtitle text of more than 20 characters.
DownloadOutcomes == {"ok", "blocked", "membership", "error"}
DownloadDone(t, outcome, sub) ==
  LET i == t[2] IN
  /\ pc[t] = "downloading"
  /\ OnThread(t)
  /\ sub => t[1] = "pv" /\ outcome = "ok"
  /\ IF outcome = "ok"
       THEN /\ ResetBlockedOnSuccess
            /\ video_file' = video_file \cup {video_id[i]}
            /\ IF t[1] = "pv" /\ i \in redownload
                 THEN Apply(i, AfterDownload(i, status[i], 25, transcript[i], sub), TRUE)
                 ELSE /\ progress' = [progress EXCEPT ![i] = 25]
                      /\ time_since_update' = [time_since_update EXCEPT ![i] = 0]
                      /\ Suspend(t, IF sub THEN "thumbnail_sub" ELSE "thumbnail")
                      /\ downloaded_at' = [downloaded_at EXCEPT ![i] = TRUE]
                      /\ UNCHANGED <<status, error_message, transcript, completed_at, runnerVars>>
       ELSE /\ IF outcome = "blocked"
                 THEN /\ blocked_download_failures < MaxFailures
                      /\ RegisterBlocked
                 ELSE UNCHANGED <<downloads_paused_until, blocked_download_failures>>
            /\ Fail(t, outcome)
            /\ UNCHANGED <<video_file, runnerVars>>
  /\ UNCHANGED <<settings, playlist_items, video_id, wav_file, audio_duration,
                 last_download_started_at, download_rate_lock, download_rate_waiters,
                 timeoutVars, sideVars>>

\* download_only_task after the thumbnail (lines 486-494, 559-570).
DlThumbnailDone(i) ==
  LET t == <<"dl", i>> IN
  /\ pc[t] = "thumbnail"
  /\ OnThread(t)
  /\ status' = [status EXCEPT ![i] = IF i \in playlist_items THEN COMPLETED ELSE CONVERTING]
  /\ progress' = [progress EXCEPT ![i] = IF i \in playlist_items THEN 100 ELSE @]
  /\ completed_at' = [completed_at EXCEPT ![i] = IF i \in playlist_items THEN TRUE ELSE @]
  /\ UNCHANGED downloaded_at
  /\ time_since_update' = [time_since_update EXCEPT ![i] = 0]
  /\ Finish(t)
  /\ UNCHANGED <<settings, error_message, transcript, diskVars, gateVars, runnerVars,
                 timeoutVars, sideVars>>

\* retry_video (routers/video.py lines 269-297): the operator's retry of a failed row.
RetryVideo(i) ==
  /\ status[i] = FAILED
  /\ status' = [status EXCEPT ![i] = PENDING]
  /\ progress' = [progress EXCEPT ![i] = 0]
  /\ error_message' = [error_message EXCEPT ![i] = "none"]
  /\ time_since_update' = [time_since_update EXCEPT ![i] = 0]
  /\ UNCHANGED <<settings, transcript, completed_at, downloaded_at, diskVars, poolVars, gateVars, runnerVars, timeoutVars, sideVars>>

\* -------------------------------------------------------- process_video_task
\* process_video_task from its start to its first suspension (lines 590-635, 683-783).
\* Line 600 looks VideoStatus.UNAVAILABLE up for every row: where the enum has no such
\* member the run ends there in the handler of lines 1155-1166.
PvStart(i) ==
  LET t == <<"pv", i>> IN
  /\ pc[t] = "queued"
  /\ SemFree("pv")
  /\ IF ~settings.unavailable_declared
       THEN /\ Fail(t, "error")
            /\ UNCHANGED <<gateVars, runnerVars>>
     ELSE IF status[i] \in {COMPLETED, FAILED, UNAVAILABLE}
       THEN /\ Finish(t)
            /\ UNCHANGED <<rowVars, gateVars, runnerVars>>
     ELSE IF status[i] \in {PENDING, DOWNLOADING} \/ video_id[i] \notin video_file
       THEN LET g == GateResult(t) IN
            /\ status' = [status EXCEPT ![i] = DOWNLOADING]
            /\ progress' = [progress EXCEPT ![i] = 0]
            /\ time_since_update' = [time_since_update EXCEPT ![i] = Touch(i, DOWNLOADING, 0)]
            /\ EnterGate(t, g)
            /\ pc' = [pc EXCEPT ![t] = g.pc]
            /\ download_executor' = ExecutorAfter(t, g.pc)
            /\ redownload' = IF status[i] \in {PENDING, DOWNLOADING}
                               THEN redownload \ {i} ELSE redownload \cup {i}
            /\ UNCHANGED <<running_downloads, running_processing, tasks, stopping, error_message,
                           transcript, completed_at, downloaded_at, runnerVars>>
     ELSE /\ Apply(i, AfterDownload(i, status[i], progress[i], transcript[i], FALSE), FALSE)
          /\ UNCHANGED gateVars
  /\ UNCHANGED <<settings, diskVars, timeoutVars, sideVars>>

\* process_video_task after the thumbnail of a fresh download (lines 669-682).
PvThumbnailDone(i) ==
  LET t == <<"pv", i>> IN
  /\ pc[t] \in {"thumbnail", "thumbnail_sub"}
  /\ OnThread(t)
  /\ Apply(i, AfterDownload(i, status[i], progress[i], transcript[i],
                            pc[t] = "thumbnail_sub"), FALSE)
  /\ UNCHANGED <<settings, diskVars, gateVars, timeoutVars, sideVars>>

\* format_transcript of the downloaded subtitle returns or raises (lines 829-845);
\* either way a transcript is stored, and the task goes on with step 2.
PvSubtitleDone(i) ==
  LET t == <<"pv", i>> IN
  /\ pc[t] = "format_subtitle"
  /\ Apply(i, Step2(i, status[i], 95, "text"), TRUE)
  /\ UNCHANGED <<settings, diskVars, gateVars, timeoutVars, sideVars>>

\* convert_to_audio returns or raises (lines 857-862, 877-882).
PvConvertDone(i, ok) ==
  LET t == <<"pv", i>> IN
  /\ pc[t] = "converting"
  /\ OnThread(t)
  /\ IF ok
       THEN /\ wav_file' = wav_file \cup {video_id[i]}
            /\ Apply(i, Step3(status[i], 50, transcript[i]), progress[i] # 50)
       ELSE /\ Fail(t, "error")
            /\ UNCHANGED <<wav_file, runnerVars>>
  /\ UNCHANGED <<settings, playlist_items, video_id, video_file, audio_duration, gateVars,
                 timeoutVars, sideVars>>

\* run_pipeline returns chunks, returns none, or raises (lines 1036-1055).
PipelineOutcomes == {"speech", "silence", "error"}
PvPipelineDone(i, outcome) ==
  LET t == <<"pv", i>> IN
  /\ pc[t] = "pipeline"
  /\ OnThread(t)
  /\ IF outcome = "error"
       THEN Fail(t, "error")
       ELSE /\ progress' = [progress EXCEPT ![i] = IF outcome = "speech" THEN 60 ELSE 90]
            /\ time_since_update' = [time_since_update EXCEPT ![i] = 0]
            /\ Suspend(t, IF outcome = "speech" THEN "asr" ELSE "format")
            /\ UNCHANGED <<status, error_message, transcript, completed_at, downloaded_at>>
  /\ UNCHANGED <<settings, diskVars, gateVars, runnerVars, timeoutVars, sideVars>>

\* transcribe_progress (lines 931-954), ratio being timestamp / audio_duration in
\* percent.
AsrFractions == {50, 100}
PvAsrProgress(i, ratio) ==
  LET t == <<"pv", i>>
      pr == 60 + (ratio * 30) \div 100 IN
  /\ pc[t] = "asr"
  /\ OnThread(t)
  /\ pr # progress[i] \/ time_since_update[i] # 0
  /\ progress' = [progress EXCEPT ![i] = pr]
  /\ time_since_update' = [time_since_update EXCEPT ![i] = 0]
  /\ UNCHANGED <<settings, status, error_message, transcript, completed_at, downloaded_at, diskVars, poolVars, gateVars,
                 runnerVars, timeoutVars, sideVars>>

\* transcribe_segments returns or raises (lines 1065-1078).
PvAsrDone(i, ok) ==
  LET t == <<"pv", i>> IN
  /\ pc[t] = "asr"
  /\ OnThread(t)
  /\ IF ok
       THEN /\ progress' = [progress EXCEPT ![i] = 90]
            /\ time_since_update' = [time_since_update EXCEPT ![i] = 0]
            /\ Suspend(t, "format")
            /\ UNCHANGED <<status, error_message, transcript, completed_at, downloaded_at>>
       ELSE Fail(t, "error")
  /\ UNCHANGED <<settings, diskVars, gateVars, runnerVars, timeoutVars, sideVars>>

\* The future of the runner request is done (lines 376-380, 963-982).
PvRunnerResult(i) ==
  LET t == <<"pv", i>> IN
  /\ pc[t] = "runner_wait"
  /\ runner_future[i] \in {"result", "failed"}
  /\ IF runner_future[i] = "failed"
       THEN LET r == Step4(status[i], 90, "sentinel") IN
            /\ status' = [status EXCEPT ![i] = r.st]
            /\ progress' = [progress EXCEPT ![i] = r.pr]
            /\ transcript' = [transcript EXCEPT ![i] = r.tr]
            /\ Suspend(t, r.pc)
            /\ UNCHANGED <<completed_at, downloaded_at>>
       ELSE /\ progress' = [progress EXCEPT ![i] = 90]
            /\ Suspend(t, "format")
            /\ UNCHANGED <<status, transcript, completed_at, downloaded_at>>
  /\ time_since_update' = [time_since_update EXCEPT ![i] = 0]
  /\ runner_future' = [runner_future EXCEPT ![i] = "none"]
  /\ UNCHANGED <<settings, error_message, diskVars, gateVars, runner_pending_queue,
                 runner_worker, runner_request, runner_job, post_log, put_log, accept_log,
                 timeoutVars, sideVars>>

\* format_transcript returns or raises (lines 1079-1098, 983-1011): the formatted or the
\* raw text is stored, which may be empty; then step 4.
PvFormatDone(i, tr) ==
  LET t == <<"pv", i>> IN
  /\ pc[t] = "format"
  /\ Apply(i, Step4(status[i], 95, tr), TRUE)
  /\ UNCHANGED <<settings, diskVars, gateVars, timeoutVars, sideVars>>

\* generate_summary returns or raises (lines 1126-1130).
PvSummaryDone(i, ok) ==
  LET t == <<"pv", i>> IN
  /\ pc[t] = "summary"
  /\ IF ok
       THEN /\ Suspend(t, "keywords")
            /\ UNCHANGED rowVars
       ELSE Fail(t, "error")
  /\ UNCHANGED <<settings, diskVars, gateVars, runnerVars, timeoutVars, sideVars>>

\* generate_keywords returns or raises; the row is completed (lines 1132-1151).
PvKeywordsDone(i) ==
  LET t == <<"pv", i>> IN
  /\ pc[t] = "keywords"
  /\ status' = [status EXCEPT ![i] = COMPLETED]
  /\ progress' = [progress EXCEPT ![i] = 100]
  /\ completed_at' = [completed_at EXCEPT ![i] = TRUE]
  /\ UNCHANGED downloaded_at
  /\ time_since_update' = [time_since_update EXCEPT ![i] = 0]
  /\ Finish(t)
  /\ UNCHANGED <<settings, error_message, transcript, diskVars, gateVars, runnerVars,
                 timeoutVars, sideVars>>

\* ------------------------------------------------------------ Subscriptions
\* channel_subscriptions as migrations 007, 008 and 010 create it.  A row is free
\* (id not used yet), pending, resolved or deleted; channel_id 0 is NULL,
\* auto_playlist_id 0 is NULL and 1 is the playlist of user 1.
SubIds == 1 .. MaxSubs
Users == {1, 2}
ChannelUrls == {1, 2, 3}
VideoUrls == {1, 2, 3}
Positions == 1 .. MaxPosition
Polls == {"periodic", "triggered"}
NoRow ==
  [status |-> "free", user_id |-> 0, channel_url |-> 0, channel_id |-> 0,
   auto_playlist_id |-> 0]
DeletedRow == [NoRow EXCEPT !.status = "deleted"]
Present(s) == subscriptions[s].status \in {"pending", "resolved"}

\* resolve_channel: URLs 1 and 2 are two spellings (/@handle, /channel/UC...) of
\* channel 1, URL 3 is channel 2.
ChannelOf(url) == IF url = 3 THEN 2 ELSE 1

\* fetch_latest_video_urls: the lists a channel's videos tab can give, without
\* repetitions (seen_ids): channel 1 has videos 1 and 2, channel 2 has video 3.
FetchResults(url) == IF ChannelOf(url) = 1 THEN {<<1>>, <<1, 2>>} ELSE {<<3>>}

\* The rows of a set of ids in id order.
RECURSIVE RowsInOrder(_, _)
RowsInOrder(S, s) ==
  IF s > MaxSubs THEN <<>>
  ELSE IF s \in S
    THEN <<[id |-> s, user_id |-> subscriptions[s].user_id,
            channel_url |-> subscriptions[s].channel_url,
            auto_playlist_id |-> subscriptions[s].auto_playlist_id]>>
         \o RowsInOrder(S, s + 1)
  ELSE RowsInOrder(S, s + 1)

NoPositions == [p \in Positions |-> 0]
IdlePoll ==
  [pc |-> "idle", subs |-> <<>>, ins |-> {}, pos_flushed |-> NoPositions,
   pos_pending |-> <<>>]
IdleResolver ==
  [pc |-> "idle", subs |-> <<>>, set_channel |-> [s \in SubIds |-> 0], deleted |-> {},
   resolved_any |-> FALSE]

\* A subscribe that inserts without looking for an existing row.
SubscribeAlways(u, url) ==
  /\ \E s \in SubIds :
       /\ subscriptions[s].status = "free"
       /\ \A r \in SubIds : r < s => subscriptions[r].status # "free"
       /\ subscriptions' = [subscriptions EXCEPT ![s] =
            [status |-> "pending", user_id |-> u, channel_url |-> url, channel_id |-> 0,
             auto_playlist_id |-> 0]]
       /\ subscribe_response' = [code |-> 201, id |-> s]
  /\ UNCHANGED <<queueVars, serviceVars, video_urls, playlist_positions, poll, resolver>>

\* POST /api/subscriptions (routers/subscriptions.py lines 56-91).
Subscribe(u, url) ==
  LET existing == {s \in SubIds : /\ Present(s)
                                   /\ subscriptions[s].user_id = u
                                   /\ subscriptions[s].channel_url = url} IN
  IF existing # {}
    THEN /\ subscribe_response' =
              [code |-> 200, id |-> CHOOSE s \in existing : \A r \in existing : s <= r]
         /\ UNCHANGED <<queueVars, serviceVars, subscriptions, video_urls, playlist_positions, poll, resolver>>
    ELSE SubscribeAlways(u, url)

\* uq_channel_subscriptions_user_url_pending (migration 008): one row with NULL
\* channel_id per (user_id, channel_url).
PendingUrlTaken(s, url) ==
  \E r \in SubIds \ {s} :
    /\ Present(r)
    /\ subscriptions[r].user_id = subscriptions[s].user_id
    /\ subscriptions[r].channel_url = url
    /\ subscriptions[r].channel_id = 0

\* PATCH /api/subscriptions/{id} with channel_url (lines 142-180); the commit fails
\* on the unique index when another pending row of the user has the URL.
UpdateUrl(s, url) ==
  /\ Present(s)
  /\ ~PendingUrlTaken(s, url)
  /\ subscriptions' = [subscriptions EXCEPT ![s] =
       [@ EXCEPT !.status = "pending", !.channel_url = url, !.channel_id = 0]]
  /\ UNCHANGED <<queueVars, serviceVars, video_urls, playlist_positions, poll, resolver, subscribe_response>>

\* _process_pending_subscriptions_task from its start to the first
\* resolve_channel (lines 1171-1198).
ResolverStart ==
  LET pending == {s \in SubIds : subscriptions[s].status = "pending"
                                  /\ subscriptions[s].channel_id = 0} IN
  /\ resolver.pc = "idle"
  /\ pending # {}
  /\ resolver' = [IdleResolver EXCEPT !.pc = "running", !.subs = RowsInOrder(pending, 1)]
  /\ UNCHANGED <<queueVars, serviceVars, subscriptions, video_urls, playlist_positions, poll, subscribe_response>>

\* uq_channel_subscriptions_user_channel_resolved (migration 008) on the table tab.
ChannelUnique(tab) ==
  \A s, r \in SubIds :
    /\ s # r
    /\ tab[s].status \in {"pending", "resolved"} /\ tab[r].status \in {"pending", "resolved"}
    /\ tab[s].user_id = tab[r].user_id
    /\ tab[s].channel_id # 0
    => tab[s].channel_id # tab[r].channel_id

\* The session's UPDATEs of db.commit() (line 1232): the rows this pass resolved.
ResolverUpdated(set_channel) ==
  [s \in SubIds |->
     IF set_channel[s] # 0 /\ Present(s)
       THEN [subscriptions[s] EXCEPT !.status = "resolved", !.channel_id = set_channel[s]]
       ELSE subscriptions[s]]

\* One subscription of the pass after resolve_channel returned (lines 1199-1229), and
\* after the last one the commit and the triggered poll (lines 1232-1238).  The
\* session has autoflush off (database.py line 44), so the query for an existing row
\* reads the table without this pass's own changes.
ResolverResolved(outcome) ==
  LET sub == Head(resolver.subs)
      channel_id == ChannelOf(sub.channel_url)
      existing == \E s \in SubIds \ {sub.id} :
                    /\ Present(s)
                    /\ subscriptions[s].user_id = sub.user_id
                    /\ subscriptions[s].channel_id = channel_id
      set_channel == IF outcome = "ok" /\ ~existing
                       THEN [resolver.set_channel EXCEPT ![sub.id] = channel_id]
                       ELSE resolver.set_channel
      deleted == IF outcome = "ok" /\ existing
                   THEN resolver.deleted \cup {sub.id} ELSE resolver.deleted
      resolved_any == resolver.resolved_any \/ outcome = "ok"
      updated == ResolverUpdated(set_channel)
  IN
  /\ resolver.pc = "running"
  /\ IF Tail(resolver.subs) # <<>>
       THEN /\ resolver' = [resolver EXCEPT !.subs = Tail(@), !.set_channel = set_channel,
                                           !.deleted = deleted, !.resolved_any = resolved_any]
            /\ UNCHANGED <<subscriptions, poll>>
       ELSE /\ resolver' = IdleResolver
            /\ IF ChannelUnique(updated)
                 THEN /\ subscriptions' =
                           [s \in SubIds |-> IF s \in deleted /\ Present(s)
                                               THEN DeletedRow ELSE updated[s]]
                      /\ poll' = IF resolved_any /\ poll["triggered"].pc = "idle"
                                   THEN [poll EXCEPT !["triggered"].pc = "created"]
                                   ELSE poll
                 ELSE UNCHANGED <<subscriptions, poll>>
  /\ UNCHANGED <<queueVars, serviceVars, video_urls, playlist_positions, subscribe_response>>

\* worker_loop lines 1482-1488: the periodic subscription check is created.
PeriodicPoll ==
  /\ poll["periodic"].pc = "idle"
  /\ poll' = [poll EXCEPT !["periodic"].pc = "created"]
  /\ UNCHANGED <<queueVars, serviceVars, subscriptions, video_urls, playlist_positions, resolver, subscribe_response>>

\* _subscription_check_task from its start to the first fetch (lines 1243-1265).
PollStart(p) ==
  LET subs == RowsInOrder({s \in SubIds : Present(s)}, 1) IN
  /\ poll[p].pc = "created"
  /\ poll' = [poll EXCEPT ![p] =
       IF subs = <<>> THEN IdlePoll ELSE [IdlePoll EXCEPT !.pc = "running", !.subs = subs]]
  /\ UNCHANGED <<queueVars, serviceVars, subscriptions, video_urls, playlist_positions, resolver, subscribe_response>>

\* The greatest position with an item in a table of positions (0: none).
RECURSIVE MaxPositionIn(_, _)
MaxPositionIn(tab, p) ==
  IF p = 0 THEN 0 ELSE IF tab[p] > 0 THEN p ELSE MaxPositionIn(tab, p - 1)

PositionsPlus(tab, seq) ==
  [p \in Positions |-> tab[p] + Cardinality({k \in DOMAIN seq : seq[k] = p})]
PositionsSum(a, b) == [p \in Positions |-> a[p] + b[p]]

\* lines 1280-1303: the loop over the fetched URLs.  st is the session: ins the rows
\* inserted and flushed, pos_flushed and pos_pending the PlaylistItems flushed and
\* only added, next the next position.  db.flush() (line 1295) also writes the
\* PlaylistItem added before it.
RECURSIVE AddUrls(_, _, _)
AddUrls(urls, sub, st) ==
  IF urls = <<>> THEN st
  ELSE LET url == Head(urls)
           existing == video_urls[<<sub.user_id, url>>] > 0 \/ <<sub.user_id, url>> \in st.ins
       IN
       IF existing THEN AddUrls(Tail(urls), sub, st)
       ELSE AddUrls(Tail(urls), sub,
              [ins |-> st.ins \cup {<<sub.user_id, url>>},
               pos_flushed |-> PositionsPlus(st.pos_flushed, st.pos_pending),
               pos_pending |-> IF sub.auto_playlist_id # 0 THEN <<st.next>> ELSE <<>>,
               next |-> IF sub.auto_playlist_id # 0 THEN st.next + 1 ELSE st.next])

\* lines 1272-1278: the session as the loop finds it; the query for the greatest
\* position reads the committed items and those this session has flushed.
PollSession(p) ==
  [ins |-> poll[p].ins,
   pos_flushed |-> poll[p].pos_flushed,
   pos_pending |-> poll[p].pos_pending,
   next |-> MaxPositionIn(PositionsSum(playlist_positions, poll[p].pos_flushed),
                          MaxPosition) + 1]

\* One subscription of the check after the fetch returned or timed out (lines
\* 1265-1310), and after the last one the commit (line 1311).
PollFetched(p, urls) ==
  LET sub == Head(poll[p].subs)
      st == AddUrls(urls, sub, PollSession(p))
      posAll == PositionsPlus(st.pos_flushed, st.pos_pending)
  IN
  /\ poll[p].pc = "running"
  /\ urls = <<>> \/ urls \in FetchResults(sub.channel_url)
  /\ st.next <= MaxPosition + 1
  /\ \A k \in Users \X VideoUrls : video_urls[k] + (IF k \in st.ins THEN 1 ELSE 0) <= MaxCopies
  /\ IF Tail(poll[p].subs) # <<>>
       THEN /\ poll' = [poll EXCEPT ![p] =
                 [pc |-> "running", subs |-> Tail(poll[p].subs), ins |-> st.ins,
                  pos_flushed |-> st.pos_flushed, pos_pending |-> st.pos_pending]]
            /\ UNCHANGED <<video_urls, playlist_positions>>
       ELSE /\ poll' = [poll EXCEPT ![p] = IdlePoll]
            /\ video_urls' = [k \in Users \X VideoUrls |->
                 video_urls[k] + (IF k \in st.ins THEN 1 ELSE 0)]
            /\ playlist_positions' = PositionsSum(playlist_positions, posAll)
  /\ UNCHANGED <<queueVars, serviceVars, subscriptions, resolver, subscribe_response>>

\* POST /api/playlists/items (routers/playlist.py lines 326-339) for a video that
\* is not in the playlist yet.
AddItem ==
  LET max_position == MaxPositionIn(playlist_positions, MaxPosition) IN
  /\ max_position < MaxPosition
  /\ playlist_positions' = [playlist_positions EXCEPT ![max_position + 1] = @ + 1]
  /\ UNCHANGED <<queueVars, serviceVars, subscriptions, video_urls, poll, resolver, subscribe_response>>

\* No subscriptions, no subscription videos, an empty playlist.
NoSubscriptions ==
  /\ subscriptions = [s \in SubIds |-> NoRow]
  /\ video_urls = [k \in Users \X VideoUrls |-> 0]
  /\ playlist_positions = NoPositions
  /\ poll = [p \in Polls |-> IdlePoll]
  /\ resolver = IdleResolver
  /\ subscribe_response = [code |-> 0, id |-> 0]

\* ---------------------------------------------------- Transcribe Runner Service
\* transcribe_runner/main.py.  NUM_GPUS device ids, from 0.
GpuIds == 0 .. MaxGpus - 1
Devices == 0 .. num_gpus - 1
JobIds == 1 .. MaxJobs
NoJob == [status |-> "none", result |-> "none", error |-> "none"]
NoRun == [pc |-> "idle", device_id |-> None]

\* A selector that gives up as soon as one device is disabled, to compare
\* NoHealthyGpus with.
SomeGpuDisabled == disabled_devices # {}

\* _pick_device_id, line 85.
NoHealthyGpus == Cardinality(disabled_devices) >= num_gpus

\* _pick_device_id, lines 88-93: n candidates are left to try.
RECURSIVE ScanDevices(_, _)
ScanDevices(counter, n) ==
  IF n = 0 THEN [device_id |-> None, counter |-> counter]
  ELSE IF counter % num_gpus \notin disabled_devices
    THEN [device_id |-> counter % num_gpus, counter |-> counter + 1]
  ELSE ScanDevices(counter + 1, n - 1)

\* _pick_device_id (lines 78-93): the device and the counter afterwards; None stands
\* for the RuntimeError.
PickDeviceId ==
  IF NoHealthyGpus THEN [device_id |-> None, counter |-> device_counter]
  ELSE ScanDevices(device_counter, num_gpus)

\* submit_transcribe (lines 254-273): uuid4 gives an id no job has.
SubmitTranscribe ==
  \E j \in JobIds :
    /\ jobs[j].status = "none"
    /\ \A k \in JobIds : k < j => jobs[k].status # "none"
    /\ jobs' = [jobs EXCEPT ![j].status = "pending"]
    /\ job_queue' = Append(job_queue, j)
    /\ UNCHANGED <<queueVars, subVars, job_run, disabled_devices, device_counter,
                   whisper_services, active_jobs_per_device, num_gpus,
                   release_gpu_when_idle, unhealthy_log>>

\* One iteration of _dispatcher_loop (lines 139-154).
DispatcherLoop ==
  /\ job_queue # <<>>
  /\ LET j == Head(job_queue)
         r == PickDeviceId
     IN /\ job_queue' = Tail(job_queue)
        /\ device_counter' = r.counter % num_gpus
        /\ IF r.device_id = None
             THEN /\ jobs' = [jobs EXCEPT ![j].status = "failed", ![j].error = "no_gpu"]
                  /\ UNCHANGED job_run
             ELSE /\ job_run' = [job_run EXCEPT ![j] = [pc |-> "submitted",
                                                        device_id |-> r.device_id]]
                  /\ UNCHANGED jobs
  /\ UNCHANGED <<queueVars, subVars, disabled_devices, whisper_services,
                 active_jobs_per_device, num_gpus, release_gpu_when_idle, unhealthy_log>>

\* The jobs a thread of _executor is running.
RunningJobs == {j \in JobIds : job_run[j].pc \in {"pipeline", "transcribe", "releasing"}}

\* _run_job up to run_pipeline (lines 157-168), once the pool of
\* MAX_CONCURRENT_JOBS threads (line 49) has a free thread; the pool takes the
\* submitted calls in order.
RunJobStart(j) ==
  LET d == job_run[j].device_id IN
  /\ job_run[j].pc = "submitted"
  /\ \A k \in JobIds : k < j => job_run[k].pc # "submitted"
  /\ Cardinality(RunningJobs) < MAX_CONCURRENT_JOBS
  /\ active_jobs_per_device' = [active_jobs_per_device EXCEPT ![d] = @ + 1]
  /\ jobs' = [jobs EXCEPT ![j].status = "processing"]
  /\ job_run' = [job_run EXCEPT ![j].pc = "pipeline"]
  /\ UNCHANGED <<queueVars, subVars, job_queue, disabled_devices, device_counter,
                 whisper_services, num_gpus, release_gpu_when_idle, unhealthy_log>>

\* _release_device_after_job (lines 123-131) under _device_counter_lock: the count
\* after the decrement; the device is idle when it is 0.
CountAfterJob(d) == Max(0, active_jobs_per_device[d] - 1)

\* The end of _run_job (lines 170-180, 201-221): the job's entry and the decrement;
\* services: _whisper_services as the job leaves it.  Where the device is idle and
\* idle models are released, the thread goes on to _release_whisper_if_idle, which
\* takes _whisper_lock only after _device_counter_lock has been released.
EndJob(j, st, result, error, services) ==
  LET d == job_run[j].device_id IN
  /\ jobs' = [jobs EXCEPT ![j] = [status |-> st, result |-> result, error |-> error]]
  /\ active_jobs_per_device' = [active_jobs_per_device EXCEPT ![d] = CountAfterJob(d)]
  /\ whisper_services' = services
  /\ job_run' = [job_run EXCEPT ![j].pc =
       IF CountAfterJob(d) = 0 /\ release_gpu_when_idle THEN "releasing" ELSE "done"]

\* _release_whisper_if_idle (lines 96-120) once it has _whisper_lock: the service of
\* the device is popped and its model deleted.
ReleaseWhisperIfIdle(j) ==
  /\ job_run[j].pc = "releasing"
  /\ whisper_services' = [whisper_services EXCEPT ![job_run[j].device_id] = "none"]
  /\ job_run' = [job_run EXCEPT ![j].pc = "done"]
  /\ UNCHANGED <<queueVars, subVars, jobs, job_queue, disabled_devices, device_counter,
                 active_jobs_per_device, num_gpus, release_gpu_when_idle, unhealthy_log>>

\* run_pipeline returns or raises, then _get_whisper (lines 168-189, 58-75).
RunPipelineOutcomes == {"chunks", "empty", "error"}
PipelineDone(j, outcome) ==
  LET d == job_run[j].device_id
      svc == IF whisper_services[d] = "none" THEN "healthy" ELSE whisper_services[d]
  IN
  /\ job_run[j].pc = "pipeline"
  /\ IF outcome = "empty"
       THEN /\ EndJob(j, "completed", "empty", "none", whisper_services)
            /\ UNCHANGED disabled_devices
     ELSE IF outcome = "error"
       THEN /\ EndJob(j, "failed", "none", "pipeline", whisper_services)
            /\ UNCHANGED disabled_devices
     ELSE IF d \in disabled_devices
       THEN /\ EndJob(j, "failed", "none", "disabled", whisper_services)
            /\ UNCHANGED disabled_devices
     ELSE IF svc = "unhealthy"
       THEN /\ disabled_devices' = disabled_devices \cup {d}
            /\ EndJob(j, "failed", "none", "disabled", whisper_services)
     ELSE /\ whisper_services' = [whisper_services EXCEPT ![d] = svc]
          /\ job_run' = [job_run EXCEPT ![j].pc = "transcribe"]
          /\ UNCHANGED <<jobs, active_jobs_per_device, disabled_devices>>
  /\ UNCHANGED <<queueVars, subVars, job_queue, device_counter, num_gpus,
                 release_gpu_when_idle, unhealthy_log>>

\* whisper.transcribe_segments returns or raises (lines 190-216, and
\* whisper_service.py lines 189-228: a RuntimeError whose text has "invalid
\* argument" marks the service unhealthy).
TranscribeOutcomes == {"ok", "invalid_argument", "error"}
TranscribeDone(j, outcome) ==
  LET d == job_run[j].device_id IN
  /\ job_run[j].pc = "transcribe"
  /\ IF outcome = "ok"
       THEN /\ EndJob(j, "completed", "text", "none", whisper_services)
            /\ UNCHANGED unhealthy_log
     ELSE IF outcome = "invalid_argument"
       THEN /\ EndJob(j, "failed", "none", "invalid_argument",
                      [whisper_services EXCEPT ![d] = "unhealthy"])
            /\ unhealthy_log' = unhealthy_log \cup {d}
     ELSE /\ EndJob(j, "failed", "none", "cuda", whisper_services)
          /\ UNCHANGED unhealthy_log
  /\ UNCHANGED <<queueVars, subVars, job_queue, disabled_devices, device_counter,
                 num_gpus, release_gpu_when_idle>>

\* The module as imported (lines 33-55): no job, no service, the counter at 0.
NoJobsOn(n, release) ==
  /\ jobs = [j \in JobIds |-> NoJob]
  /\ job_queue = <<>>
  /\ job_run = [j \in JobIds |-> NoRun]
  /\ disabled_devices = {}
  /\ device_counter = 0
  /\ whisper_services = [d \in GpuIds |-> "none"]
  /\ active_jobs_per_device = [d \in GpuIds |-> 0]
  /\ num_gpus = n
  /\ release_gpu_when_idle = release
  /\ unhealthy_log = {}
NoJobs == NoJobsOn(MaxGpus, FALSE)

\* ------------------------------------------------------------ Specifications
\* The worker process right after main() has created the dispatcher workers and
\* before the first iteration of worker_loop (lines 1323-1326, 40-47, 59-60,
\* 1508-1514).
Boot ==
  /\ running_downloads = {}
  /\ running_processing = {}
  /\ tasks = [t \in Tasks |-> 0]
  /\ pc = [t \in Tasks |-> "idle"]
  /\ redownload = {}
  /\ stopping = FALSE
  /\ download_executor = [threads |-> {}, work_queue |-> <<>>]
  /\ downloads_paused_until = None
  /\ blocked_download_failures = 0
  /\ last_download_started_at = None
  /\ download_rate_lock = NoLock
  /\ download_rate_waiters = <<>>
  /\ runner_pending_queue = <<>>
  /\ runner_worker = [w \in Workers |-> IF settings.transcribe_runner_url THEN "woken" ELSE "off"]
  /\ runner_request = [w \in Workers |-> 0]
  /\ runner_job = [w \in Workers |-> "none"]
  /\ runner_future = [i \in Ids |-> "none"]
  /\ post_log = <<>>
  /\ accept_log = <<>>
  /\ put_log = <<>>
  /\ probe_in = None
  /\ timeout_out = None

\* The storage directory: rows 2 and 3 are the same video, added twice.
Disk ==
  /\ video_id = [i \in Ids |-> IF i = 3 THEN 2 ELSE i]
  /\ audio_duration = [v \in VideoIds |-> 300]
  /\ video_file = {}
  /\ wav_file = {}

\* Row 1 was completed by an earlier run; the other rows are freshly submitted
\* (routers/video.py: status pending, progress 0), row 3 into a playlist.
Rows ==
  /\ status = [i \in Ids |-> IF i = 1 THEN COMPLETED ELSE PENDING]
  /\ progress = [i \in Ids |-> IF i = 1 THEN 100 ELSE 0]
  /\ time_since_update = [i \in Ids |-> 0]
  /\ error_message = [i \in Ids |-> "none"]
  /\ transcript = [i \in Ids |-> IF i = 1 THEN "text" ELSE "none"]
  /\ completed_at = [i \in Ids |-> status[i] = COMPLETED]
  /\ downloaded_at = [i \in Ids |-> video_id[i] \in video_file]
  /\ playlist_items = {3}

\* In-process transcription, no download spacing, two slots per pool.
Init ==
  /\ settings = [queue_download_concurrency |-> 2, queue_process_concurrency |-> 2,
                 queue_download_min_interval_seconds |-> 0,
                 queue_blocked_threshold |-> 2, queue_blocked_pause_seconds |-> 3600,
                 transcribe_runner_url |-> FALSE, transcribe_runner_concurrency |-> 3,
                 whisper_available |-> TRUE, unavailable_declared |-> TRUE]
  /\ Boot
  /\ NoSubscriptions
  /\ NoJobs
  /\ Disk
  /\ Rows

Next ==
  \/ Tick
  \/ Advance(ClockStep)
  \/ \E i \in Ids : DlStart(i)
  \/ \E t \in Tasks : GateWake(t)
  \/ \E t \in Tasks, p \in DownloadFractions : DownloadProgress(t, p)
  \/ \E t \in Tasks, outcome \in DownloadOutcomes, sub \in BOOLEAN : DownloadDone(t, outcome, sub)
  \/ \E i \in Ids : DlThumbnailDone(i)
  \/ \E i \in Ids : RetryVideo(i)
  \/ \E i \in Ids : PvStart(i)
  \/ \E i \in Ids, ok \in BOOLEAN : PvConvertDone(i, ok)
  \/ \E i \in Ids, outcome \in PipelineOutcomes : PvPipelineDone(i, outcome)
  \/ \E i \in Ids, ratio \in AsrFractions : PvAsrProgress(i, ratio)
  \/ \E i \in Ids, ok \in BOOLEAN : PvAsrDone(i, ok)
  \/ \E i \in Ids, tr \in {"text", "empty"} : PvFormatDone(i, tr)
  \/ \E i \in Ids, ok \in BOOLEAN : PvSummaryDone(i, ok)
  \/ \E i \in Ids : PvKeywordsDone(i)

Spec == Init /\ [][Next]_vars

\* Downloads spaced by 30 minutes and paused at the first blocked failure, no
\* Whisper service; row 1 was being summarized when the previous worker process
\* stopped and its media files were removed since (routers/history.py lines 333-338),
\* row 3 was completed.
InitGate ==
  /\ settings = [queue_download_concurrency |-> 2, queue_process_concurrency |-> 2,
                 queue_download_min_interval_seconds |-> 1800,
                 queue_blocked_threshold |-> 1, queue_blocked_pause_seconds |-> 3600,
                 transcribe_runner_url |-> FALSE, transcribe_runner_concurrency |-> 3,
                 whisper_available |-> FALSE, unavailable_declared |-> TRUE]
  /\ Boot
  /\ NoSubscriptions
  /\ NoJobs
  /\ video_id = [i \in Ids |-> i]
  /\ audio_duration = [v \in VideoIds |-> 300]
  /\ video_file = VideoIds \ {1, 2}
  /\ wav_file = VideoIds \ {1, 2}
  /\ status = [i \in Ids |-> IF i = 1 THEN SUMMARIZING ELSE IF i = 2 THEN PENDING ELSE COMPLETED]
  /\ progress = [i \in Ids |-> IF i = 1 THEN 95 ELSE IF i = 2 THEN 0 ELSE 100]
  /\ time_since_update = [i \in Ids |-> 0]
  /\ error_message = [i \in Ids |-> "none"]
  /\ transcript = [i \in Ids |-> IF i = 2 THEN "none" ELSE "text"]
  /\ completed_at = [i \in Ids |-> status[i] = COMPLETED]
  /\ downloaded_at = [i \in Ids |-> video_id[i] \in video_file]
  /\ playlist_items = {}

NextGate ==
  \/ Tick
  \/ Advance(ClockStep)
  \/ \E i \in Ids : DlStart(i)
  \/ \E t \in Tasks : GateWake(t)
  \/ \E t \in Tasks : RateLockAcquire(t)
  \/ \E t \in Tasks : SpacingWake(t)
  \/ \E t \in Tasks, outcome \in {"ok", "blocked"}, sub \in BOOLEAN :
       DownloadDone(t, outcome, sub)
  \/ \E i \in Ids : DlThumbnailDone(i)
  \/ \E i \in Ids : RetryVideo(i)
  \/ \E i \in Ids : PvStart(i)
  \/ \E i \in Ids : PvThumbnailDone(i)
  \/ \E i \in Ids : PvSubtitleDone(i)
  \/ \E i \in Ids : PvConvertDone(i, TRUE)
  \/ \E i \in Ids : PvSummaryDone(i, TRUE)
  \/ \E i \in Ids : PvKeywordsDone(i)

SpecGate == InitGate /\ [][NextGate]_vars

\* The supervisor's pass over what a stopped worker process left behind: rows 1 and 2
\* in any stage the supervisor may meet, at ages around each timeout, with or without
\* their WAV.
StuckAges ==
  {0, BASE_STUCK_TASK_TIMEOUT, BASE_STUCK_TASK_TIMEOUT + 1,
   MIN_TRANSCRIPTION_TIMEOUT, MIN_TRANSCRIPTION_TIMEOUT + 1,
   FALLBACK_TRANSCRIPTION_TIMEOUT, FALLBACK_TRANSCRIPTION_TIMEOUT + 1}

InitStuck ==
  /\ settings = [queue_download_concurrency |-> 2, queue_process_concurrency |-> 2,
                 queue_download_min_interval_seconds |-> 0,
                 queue_blocked_threshold |-> 2, queue_blocked_pause_seconds |-> 3600,
                 transcribe_runner_url |-> FALSE, transcribe_runner_concurrency |-> 3,
                 whisper_available |-> TRUE, unavailable_declared |-> TRUE]
  /\ Boot
  /\ NoSubscriptions
  /\ NoJobs
  /\ video_id = [i \in Ids |-> i]
  /\ audio_duration = [v \in VideoIds |-> IF v = 1 THEN 300 ELSE 0]
  /\ video_file = VideoIds
  /\ wav_file \in {VideoIds, VideoIds \ {1}}
  /\ status \in {st \in [Ids -> VideoStatus] :
                  \A i \in Ids : IF i <= 2 THEN st[i] \in InProgress ELSE st[i] = PENDING}
  /\ progress = [i \in Ids |-> IF status[i] = PENDING THEN 0 ELSE 50]
  /\ time_since_update \in {age \in [Ids -> StuckAges] : \A i \in Ids : i > 2 => age[i] = 0}
  /\ error_message = [i \in Ids |-> "none"]
  /\ transcript = [i \in Ids |-> "none"]
  /\ completed_at = [i \in Ids |-> status[i] = COMPLETED]
  /\ downloaded_at = [i \in Ids |-> video_id[i] \in video_file]
  /\ playlist_items = {}

NextStuck ==
  \/ Tick
  \/ \E i \in Ids : DlStart(i)
  \/ \E i \in Ids : PvStart(i)

SpecStuck == InitStuck /\ [][NextStuck]_vars

\* lines 1365-1396 on their own: the probe result and the timeout of a
\* transcribing row, as the supervisor computes them in its pass.
ComputeTimeout(i) ==
  /\ status[i] = TRANSCRIBING
  /\ probe_in' = ProbedDuration(i)
  /\ timeout_out' = StuckTimeout(i)
  /\ UNCHANGED <<settings, rowVars, diskVars, poolVars, gateVars, runnerVars, sideVars>>

\* The audio durations tried: every minute up to 2 h 30 min.
MaxDurationMinutes == 150
Durations == {60 * m : m \in 0 .. MaxDurationMinutes}

InitTimeout ==
  /\ settings = [queue_download_concurrency |-> 1, queue_process_concurrency |-> 1,
                 queue_download_min_interval_seconds |-> 0,
                 queue_blocked_threshold |-> 3, queue_blocked_pause_seconds |-> 3600,
                 transcribe_runner_url |-> FALSE, transcribe_runner_concurrency |-> 3,
                 whisper_available |-> TRUE, unavailable_declared |-> TRUE]
  /\ Boot
  /\ NoSubscriptions
  /\ NoJobs
  /\ video_id = [i \in Ids |-> i]
  /\ \E d \in Durations : audio_duration = [v \in VideoIds |-> d]
  /\ video_file = VideoIds
  /\ wav_file \in {VideoIds, VideoIds \ {1}}
  /\ status = [i \in Ids |-> TRANSCRIBING]
  /\ progress = [i \in Ids |-> 50]
  /\ time_since_update = [i \in Ids |-> 0]
  /\ error_message = [i \in Ids |-> "none"]
  /\ transcript = [i \in Ids |-> "none"]
  /\ completed_at = [i \in Ids |-> status[i] = COMPLETED]
  /\ downloaded_at = [i \in Ids |-> video_id[i] \in video_file]
  /\ playlist_items = {}

NextTimeout == \E i \in Ids : ComputeTimeout(i)

SpecTimeout == InitTimeout /\ [][NextTimeout]_vars

\* Remote transcription with one or two dispatcher workers and three heavy slots: all
\* rows were being transcribed when the previous worker process stopped; row 3 holds
\* the placeholder of a failed transcription, and its WAV may be gone.
InitRunner ==
  /\ \E n \in 1 .. MaxWorkers :
       settings = [queue_download_concurrency |-> 2, queue_process_concurrency |-> 3,
                   queue_download_min_interval_seconds |-> 0,
                   queue_blocked_threshold |-> 3, queue_blocked_pause_seconds |-> 3600,
                   transcribe_runner_url |-> TRUE, transcribe_runner_concurrency |-> n,
                   whisper_available |-> FALSE, unavailable_declared |-> TRUE]
  /\ Boot
  /\ NoSubscriptions
  /\ NoJobs
  /\ video_id = [i \in Ids |-> i]
  /\ audio_duration = [v \in VideoIds |-> 300]
  /\ video_file = VideoIds
  /\ wav_file \in {VideoIds, VideoIds \ {3}}
  /\ status = [i \in Ids |-> IF i = 3 THEN SUMMARIZING ELSE TRANSCRIBING]
  /\ progress = [i \in Ids |-> IF i = 3 THEN 95 ELSE 50]
  /\ time_since_update = [i \in Ids |-> 0]
  /\ error_message = [i \in Ids |-> "none"]
  /\ transcript = [i \in Ids |-> IF i = 3 THEN "sentinel" ELSE "none"]
  /\ completed_at = [i \in Ids |-> status[i] = COMPLETED]
  /\ downloaded_at = [i \in Ids |-> video_id[i] \in video_file]
  /\ playlist_items = {}

NextRunner ==
  \/ Tick
  \/ \E i \in Ids : PvStart(i)
  \/ \E w \in Workers : WorkerResume(w)
  \/ \E w \in Workers, accepted \in BOOLEAN : PostDone(w, accepted)
  \/ \E w \in Workers, st \in {"completed", "failed"} : RunnerJobDone(w, st)
  \/ \E w \in Workers, p \in PollFractions : PollProgress(w, p)
  \/ \E w \in Workers, outcome \in PollOutcomes : PollDone(w, outcome)
  \/ \E i \in Ids : PvRunnerResult(i)
  \/ \E i \in Ids : PvFormatDone(i, "text")
  \/ \E i \in Ids : PvSummaryDone(i, TRUE)
  \/ \E i \in Ids : PvKeywordsDone(i)

SpecRunner == InitRunner /\ [][NextRunner]_vars

\* Rows 1 and 2 are in a playlist (routers/playlist.py add_item): row 1 was just
\* submitted, row 2 was put into the playlist while the previous worker process was
\* working on it; row 3 is in no playlist.  Any of the media files may be there.
InitPlaylist ==
  /\ settings = [queue_download_concurrency |-> 2, queue_process_concurrency |-> 2,
                 queue_download_min_interval_seconds |-> 0,
                 queue_blocked_threshold |-> 3, queue_blocked_pause_seconds |-> 3600,
                 transcribe_runner_url |-> FALSE, transcribe_runner_concurrency |-> 3,
                 whisper_available |-> FALSE, unavailable_declared |-> TRUE]
  /\ Boot
  /\ NoSubscriptions
  /\ NoJobs
  /\ video_id = [i \in Ids |-> i]
  /\ audio_duration = [v \in VideoIds |-> 300]
  /\ video_file \in SUBSET VideoIds
  /\ wav_file = {}
  /\ status \in {st \in [Ids -> VideoStatus] :
                  /\ st[1] = PENDING
                  /\ st[2] \in {CONVERTING, TRANSCRIBING, SUMMARIZING}
                  /\ st[3] \in {PENDING, CONVERTING}}
  /\ progress = [i \in Ids |-> IF status[i] = PENDING THEN 0 ELSE 25]
  /\ time_since_update = [i \in Ids |-> 0]
  /\ error_message = [i \in Ids |-> "none"]
  /\ transcript = [i \in Ids |-> "none"]
  /\ completed_at = [i \in Ids |-> status[i] = COMPLETED]
  /\ downloaded_at = [i \in Ids |-> video_id[i] \in video_file]
  /\ playlist_items = {1, 2}

NextPlaylist ==
  \/ Tick
  \/ \E i \in Ids : DlStart(i)
  \/ \E t \in Tasks, outcome \in {"ok", "error"}, sub \in BOOLEAN :
       DownloadDone(t, outcome, sub)
  \/ \E i \in Ids : DlThumbnailDone(i)
  \/ \E i \in Ids : PvStart(i)
  \/ \E i \in Ids : PvSubtitleDone(i)
  \/ \E i \in Ids : PvConvertDone(i, TRUE)
  \/ \E i \in Ids : PvSummaryDone(i, TRUE)
  \/ \E i \in Ids : PvKeywordsDone(i)

SpecPlaylist == InitPlaylist /\ [][NextPlaylist]_vars

\* One executor is run on row i by itself, as _run_download and _run_processing
\* (lines 1328-1340) and the unit tests (tests/test_queue_worker_unit.py line 88) run
\* it, while no other executor is alive.
Run(pool, i) ==
  /\ \A t \in Tasks : tasks[t] = 0
  /\ running_downloads' = IF pool = "dl" THEN {i} ELSE {}
  /\ running_processing' = IF pool = "pv" THEN {i} ELSE {}
  /\ CreateTasks(IF pool = "dl" THEN {i} ELSE {}, IF pool = "pv" THEN {i} ELSE {})
  /\ UNCHANGED <<settings, rowVars, diskVars, redownload, stopping, download_executor, gateVars,
                 runnerVars, timeoutVars,
                 sideVars>>

\* The executors run one after the other, any number of times, on the rows of Rows;
\* no Whisper service, so transcription stores its placeholder.
InitRerun ==
  /\ settings = [queue_download_concurrency |-> 1, queue_process_concurrency |-> 1,
                 queue_download_min_interval_seconds |-> 0,
                 queue_blocked_threshold |-> 3, queue_blocked_pause_seconds |-> 3600,
                 transcribe_runner_url |-> FALSE, transcribe_runner_concurrency |-> 3,
                 whisper_available |-> FALSE, unavailable_declared |-> TRUE]
  /\ Boot
  /\ NoSubscriptions
  /\ NoJobs
  /\ Disk
  /\ Rows

NextRerun ==
  \/ \E pool \in Pools, i \in Ids : Run(pool, i)
  \/ \E i \in Ids : DlStart(i)
  \/ \E t \in Tasks, outcome \in DownloadOutcomes, sub \in BOOLEAN : DownloadDone(t, outcome, sub)
  \/ \E i \in Ids : DlThumbnailDone(i)
  \/ \E i \in Ids : PvStart(i)
  \/ \E i \in Ids : PvThumbnailDone(i)
  \/ \E i \in Ids : PvSubtitleDone(i)
  \/ \E i \in Ids, ok \in BOOLEAN : PvConvertDone(i, ok)
  \/ \E i \in Ids, ok \in BOOLEAN : PvSummaryDone(i, ok)
  \/ \E i \in Ids : PvKeywordsDone(i)

SpecRerun == InitRerun /\ [][NextRerun]_vars

\* The worker with VideoStatus exactly as models/database.py lines 12-20 declares it,
\* on the rows of Rows.
InitAsDeclared ==
  /\ settings = [queue_download_concurrency |-> 2, queue_process_concurrency |-> 2,
                 queue_download_min_interval_seconds |-> 0,
                 queue_blocked_threshold |-> 3, queue_blocked_pause_seconds |-> 3600,
                 transcribe_runner_url |-> FALSE, transcribe_runner_concurrency |-> 3,
                 whisper_available |-> TRUE, unavailable_declared |-> FALSE]
  /\ Boot
  /\ NoSubscriptions
  /\ NoJobs
  /\ Disk
  /\ Rows

NextAsDeclared ==
  \/ Tick
  \/ \E i \in Ids : DlStart(i)
  \/ \E t \in Tasks, outcome \in DownloadOutcomes : DownloadDone(t, outcome, FALSE)
  \/ \E i \in Ids : DlThumbnailDone(i)
  \/ \E i \in Ids : RetryVideo(i)
  \/ \E i \in Ids : PvStart(i)

SpecAsDeclared == InitAsDeclared /\ [][NextAsDeclared]_vars

\* Three freshly submitted rows of three videos, three download slots, downloads
\* spaced by 30 minutes.
InitSpacing ==
  /\ settings = [queue_download_concurrency |-> 3, queue_process_concurrency |-> 1,
                 queue_download_min_interval_seconds |-> 1800,
                 queue_blocked_threshold |-> 3, queue_blocked_pause_seconds |-> 3600,
                 transcribe_runner_url |-> FALSE, transcribe_runner_concurrency |-> 3,
                 whisper_available |-> FALSE, unavailable_declared |-> TRUE]
  /\ Boot
  /\ NoSubscriptions
  /\ NoJobs
  /\ video_id = [i \in Ids |-> i]
  /\ audio_duration = [v \in VideoIds |-> 300]
  /\ video_file = {}
  /\ wav_file = {}
  /\ status = [i \in Ids |-> PENDING]
  /\ progress = [i \in Ids |-> 0]
  /\ time_since_update = [i \in Ids |-> 0]
  /\ error_message = [i \in Ids |-> "none"]
  /\ transcript = [i \in Ids |-> "none"]
  /\ completed_at = [i \in Ids |-> FALSE]
  /\ downloaded_at = [i \in Ids |-> video_id[i] \in video_file]
  /\ playlist_items = {}

NextSpacing ==
  \/ Tick
  \/ Advance(ClockStep)
  \/ \E i \in Ids : DlStart(i)
  \/ \E t \in Tasks : RateLockAcquire(t)
  \/ \E t \in Tasks : SpacingWake(t)
  \/ \E t \in Tasks, outcome \in {"ok", "error"} : DownloadDone(t, outcome, FALSE)
  \/ \E i \in Ids : DlThumbnailDone(i)

SpecSpacing == InitSpacing /\ [][NextSpacing]_vars

\* The queue idle on the rows of Rows, as far as the subscriptions are concerned.
QueueIdle ==
  /\ settings = [queue_download_concurrency |-> 2, queue_process_concurrency |-> 2,
                 queue_download_min_interval_seconds |-> 0,
                 queue_blocked_threshold |-> 3, queue_blocked_pause_seconds |-> 3600,
                 transcribe_runner_url |-> FALSE, transcribe_runner_concurrency |-> 3,
                 whisper_available |-> TRUE, unavailable_declared |-> TRUE]
  /\ Boot
  /\ Disk
  /\ Rows

\* User 1 has resolved subscriptions to channels 1 and 2, both with the auto playlist,
\* and a pending one under the other spelling of channel 1; the playlist has one item.
InitPoll ==
  /\ QueueIdle
  /\ NoJobs
  /\ subscriptions = [s \in SubIds |->
       [status |-> IF s = 3 THEN "pending" ELSE "resolved",
        user_id |-> 1,
        channel_url |-> IF s = 1 THEN 1 ELSE IF s = 2 THEN 3 ELSE 2,
        channel_id |-> IF s = 3 THEN 0 ELSE s,
        auto_playlist_id |-> IF s = 3 THEN 0 ELSE 1]]
  /\ video_urls = [k \in Users \X VideoUrls |-> 0]
  /\ playlist_positions = [p \in Positions |-> IF p = 1 THEN 1 ELSE 0]
  /\ poll = [p \in Polls |-> IdlePoll]
  /\ resolver = IdleResolver
  /\ subscribe_response = [code |-> 0, id |-> 0]

NextPoll ==
  \/ PeriodicPoll
  \/ \E p \in Polls : PollStart(p)
  \/ \E p \in Polls, urls \in {<<>>, <<1>>, <<1, 2>>, <<3>>} : PollFetched(p, urls)
  \/ ResolverStart
  \/ \E outcome \in {"ok", "none"} : ResolverResolved(outcome)
  \/ AddItem

SpecPoll == InitPoll /\ [][NextPoll]_vars

\* No subscriptions yet; users subscribe, change a row's URL to the second spelling
\* of channel 1, and the resolver runs.
InitSubscribe ==
  /\ QueueIdle
  /\ NoSubscriptions
  /\ NoJobs

NextSubscribe ==
  \/ \E u \in Users, url \in ChannelUrls : Subscribe(u, url)
  \/ \E s \in SubIds : UpdateUrl(s, 2)
  \/ ResolverStart
  \/ \E outcome \in {"ok", "none"} : ResolverResolved(outcome)

SpecSubscribe == InitSubscribe /\ [][NextSubscribe]_vars

\* The worker process starts again over what the stopped one left behind: row 1 in any
\* stage between downloading and summarizing, row 2 in downloading, the other rows
\* still pending and in a playlist; no executor is alive, the media files are there or
\* were removed, and the rows are fresh or long untouched.  One slot per pool, and the
\* first blocked download pauses the pool.  No row is added or retried afterwards.
InitRecover ==
  /\ settings = [queue_download_concurrency |-> 1, queue_process_concurrency |-> 1,
                 queue_download_min_interval_seconds |-> 0,
                 queue_blocked_threshold |-> 1, queue_blocked_pause_seconds |-> 3600,
                 transcribe_runner_url |-> FALSE, transcribe_runner_concurrency |-> 3,
                 whisper_available |-> TRUE, unavailable_declared |-> TRUE]
  /\ Boot
  /\ NoSubscriptions
  /\ NoJobs
  /\ video_id = [i \in Ids |-> i]
  /\ audio_duration = [v \in VideoIds |-> 300]
  /\ video_file \in {VideoIds, {}}
  /\ wav_file = {}
  /\ status \in {st \in [Ids -> VideoStatus] :
                  /\ st[1] \in InProgress
                  /\ st[2] = DOWNLOADING
                  /\ \A i \in Ids : i > 2 => st[i] = PENDING}
  /\ progress = [i \in Ids |-> IF status[i] \in {PENDING, DOWNLOADING} THEN 0 ELSE 50]
  /\ time_since_update \in {[i \in Ids |-> 0], [i \in Ids |-> MaxAge]}
  /\ error_message = [i \in Ids |-> "none"]
  /\ transcript = [i \in Ids |-> IF status[i] = SUMMARIZING THEN "text" ELSE "none"]
  /\ completed_at = [i \in Ids |-> FALSE]
  /\ downloaded_at = [i \in Ids |-> video_id[i] \in video_file]
  /\ playlist_items = {i \in Ids : i > 2}

\* One step of the executor t: the code up to its next suspension point, whatever the
\* capability it waited for returned.
TaskStep(t) ==
  LET i == t[2] IN
  \/ t[1] = "dl" /\ DlStart(i)
  \/ GateWake(t)
  \/ \E outcome \in DownloadOutcomes : DownloadDone(t, outcome, FALSE)
  \/ t[1] = "dl" /\ DlThumbnailDone(i)
  \/ t[1] = "pv" /\ PvStart(i)
  \/ t[1] = "pv" /\ PvThumbnailDone(i)
  \/ t[1] = "pv" /\ \E ok \in BOOLEAN : PvConvertDone(i, ok)
  \/ t[1] = "pv" /\ \E outcome \in PipelineOutcomes : PvPipelineDone(i, outcome)
  \/ t[1] = "pv" /\ \E ok \in BOOLEAN : PvAsrDone(i, ok)
  \/ t[1] = "pv" /\ \E tr \in {"text", "empty"} : PvFormatDone(i, tr)
  \/ t[1] = "pv" /\ \E ok \in BOOLEAN : PvSummaryDone(i, ok)
  \/ t[1] = "pv" /\ PvKeywordsDone(i)

NextRecover ==
  \/ Tick
  \/ Advance(ClockStep)
  \/ \E t \in Tasks : TaskStep(t)

\* worker_loop sleeps two seconds and runs again (lines 1342, 1497), the clock goes
\* on, and the event loop resumes every executor whose awaited call has returned.
FairRecover ==
  /\ WF_vars(Tick)
  /\ WF_vars(Advance(ClockStep))
  /\ \A t \in Tasks : WF_vars(TaskStep(t))

SpecRecover == InitRecover /\ [][NextRecover]_vars /\ FairRecover

\* The runner service with one or two GPUs, with and without the release of idle
\* models, and up to MaxJobs submissions.
InitService ==
  /\ QueueIdle
  /\ NoSubscriptions
  /\ \E n \in 1 .. MaxGpus, release \in BOOLEAN : NoJobsOn(n, release)

NextService ==
  \/ SubmitTranscribe
  \/ DispatcherLoop
  \/ \E j \in JobIds : RunJobStart(j)
  \/ \E j \in JobIds, outcome \in RunPipelineOutcomes : PipelineDone(j, outcome)
  \/ \E j \in JobIds, outcome \in TranscribeOutcomes : TranscribeDone(j, outcome)
  \/ \E j \in JobIds : ReleaseWhisperIfIdle(j)

SpecService == InitService /\ [][NextService]_vars

\* process_video_task called on its own, as the unit test does, on pending rows; row 3
\* is in a playlist.  In-process Whisper; every call returns, the download with or
\* without a subtitle text, run_pipeline with or without speech.
InitPipeline ==
  /\ settings = [queue_download_concurrency |-> 1, queue_process_concurrency |-> 1,
                 queue_download_min_interval_seconds |-> 0,
                 queue_blocked_threshold |-> 3, queue_blocked_pause_seconds |-> 3600,
                 transcribe_runner_url |-> FALSE, transcribe_runner_concurrency |-> 3,
                 whisper_available |-> TRUE, unavailable_declared |-> TRUE]
  /\ Boot
  /\ NoSubscriptions
  /\ NoJobs
  /\ video_id = [i \in Ids |-> i]
  /\ audio_duration = [v \in VideoIds |-> 300]
  /\ video_file = {}
  /\ wav_file = {}
  /\ status = [i \in Ids |-> PENDING]
  /\ progress = [i \in Ids |-> 0]
  /\ time_since_update = [i \in Ids |-> 0]
  /\ error_message = [i \in Ids |-> "none"]
  /\ transcript = [i \in Ids |-> "none"]
  /\ completed_at = [i \in Ids |-> FALSE]
  /\ downloaded_at = [i \in Ids |-> FALSE]
  /\ playlist_items = {i \in Ids : i > 2}

NextPipeline ==
  \/ \E i \in Ids : Run("pv", i)
  \/ \E i \in Ids : PvStart(i)
  \/ \E i \in Ids, sub \in BOOLEAN : DownloadDone(<<"pv", i>>, "ok", sub)
  \/ \E i \in Ids : PvThumbnailDone(i)
  \/ \E i \in Ids : PvSubtitleDone(i)
  \/ \E i \in Ids : PvConvertDone(i, TRUE)
  \/ \E i \in Ids, outcome \in {"speech", "silence"} : PvPipelineDone(i, outcome)
  \/ \E i \in Ids : PvAsrDone(i, TRUE)
  \/ \E i \in Ids, tr \in {"text", "empty"} : PvFormatDone(i, tr)
  \/ \E i \in Ids : PvSummaryDone(i, TRUE)
  \/ \E i \in Ids : PvKeywordsDone(i)

SpecPipeline == InitPipeline /\ [][NextPipeline]_vars

\* The two pools with one or two slots each and three pending rows, no in-process
\* Whisper: ticks, executor steps and task completions in any order.
InitPools ==
  /\ \E d \in 1 .. 2, h \in 1 .. 2 :
       settings = [queue_download_concurrency |-> d, queue_process_concurrency |-> h,
                   queue_download_min_interval_seconds |-> 0,
                   queue_blocked_threshold |-> 3, queue_blocked_pause_seconds |-> 3600,
                   transcribe_runner_url |-> FALSE, transcribe_runner_concurrency |-> 3,
                   whisper_available |-> FALSE, unavailable_declared |-> TRUE]
  /\ Boot
  /\ NoSubscriptions
  /\ NoJobs
  /\ video_id = [i \in Ids |-> i]
  /\ audio_duration = [v \in VideoIds |-> 300]
  /\ video_file = {}
  /\ wav_file = {}
  /\ status = [i \in Ids |-> PENDING]
  /\ progress = [i \in Ids |-> 0]
  /\ time_since_update = [i \in Ids |-> 0]
  /\ error_message = [i \in Ids |-> "none"]
  /\ transcript = [i \in Ids |-> "none"]
  /\ completed_at = [i \in Ids |-> FALSE]
  /\ downloaded_at = [i \in Ids |-> FALSE]
  /\ playlist_items = {}

NextPools ==
  \/ Tick
  \/ \E i \in Ids : DlStart(i)
  \/ \E t \in Tasks, outcome \in {"ok", "error"} : DownloadDone(t, outcome, FALSE)
  \/ \E i \in Ids : DlThumbnailDone(i)
  \/ \E i \in Ids : PvStart(i)
  \/ \E i \in Ids, ok \in BOOLEAN : PvConvertDone(i, ok)
  \/ \E i \in Ids, ok \in BOOLEAN : PvSummaryDone(i, ok)
  \/ \E i \in Ids : PvKeywordsDone(i)

SpecPools == InitPools /\ [][NextPools]_vars

\* The pools up to and through a stop of the process: once asyncio.run has begun to
\* cancel, the scheduler loop and the executors take no further step.
NextShutdown ==
  \/ ~stopping /\ Tick
  \/ \E i \in Ids : ~stopping /\ DlStart(i)
  \/ \E t \in Tasks, outcome \in {"ok", "error"} : ~stopping /\ DownloadDone(t, outcome, FALSE)
  \/ \E i \in Ids : ~stopping /\ DlThumbnailDone(i)
  \/ \E i \in Ids : ~stopping /\ PvStart(i)
  \/ \E i \in Ids, ok \in BOOLEAN : ~stopping /\ PvConvertDone(i, ok)
  \/ \E i \in Ids, ok \in BOOLEAN : ~stopping /\ PvSummaryDone(i, ok)
  \/ \E i \in Ids : ~stopping /\ PvKeywordsDone(i)
  \/ \E t \in Tasks : Cancel(t)

SpecShutdown == InitPools /\ [][NextShutdown]_vars

\* The dispatcher with one worker: the executors put their requests, the worker serves them,
\* the runner ends the jobs either way, and the executors take their results.  The poll
\* loop ends at the latest when the overall timeout is reached (line 306), and the
\* event loop runs every task that can run.
InitDispatch == InitRunner /\ settings.transcribe_runner_concurrency = 1

NextDispatch ==
  \/ Tick
  \/ \E i \in Ids : PvStart(i)
  \/ \E w \in Workers : WorkerResume(w)
  \/ \E w \in Workers, accepted \in BOOLEAN : PostDone(w, accepted)
  \/ \E w \in Workers, st \in {"completed", "failed"} : RunnerJobDone(w, st)
  \/ \E w \in Workers, p \in PollFractions : PollProgress(w, p)
  \/ \E w \in Workers, outcome \in PollOutcomes : PollDone(w, outcome)
  \/ \E i \in Ids : PvRunnerResult(i)

FairDispatch ==
  /\ WF_vars(Tick)
  /\ \A i \in Ids : WF_vars(PvStart(i)) /\ WF_vars(PvRunnerResult(i))
  /\ WF_vars(WorkerResume(1))
  /\ WF_vars(\E accepted \in BOOLEAN : PostDone(1, accepted))
  /\ WF_vars(\E outcome \in PollOutcomes : PollDone(1, outcome))

SpecDispatch == InitDispatch /\ [][NextDispatch]_vars /\ FairDispatch

\* ------------------------------------------------------------------ Properties
\* A step creates a task of the pool for row i.
Started(pool, i) == tasks'[<<pool, i>>] > tasks[<<pool, i>>]
Terminal == {COMPLETED, FAILED, UNAVAILABLE}
InFlight == {w \in Workers : runner_worker[w] \in {"posting", "polling"}}
HasWav(r) == video_id[r] \in wav_file

\* C1: no step starts process_video_task for an id that is in running_downloads, and
\* no step starts download_only_task for an id that is in running_processing.
C1_CrossPoolExclusion ==
  [][\A i \in Ids :
       /\ Started("pv", i) => i \notin running_downloads
       /\ Started("dl", i) => i \notin running_processing]_vars

\* C2: a step never starts a task for an id that is already in the running set of
\* that pool, so a row has at most one live task per pool however many ticks pass
\* over it.
C2_OneStartPerRow ==
  [][\A i \in Ids :
       /\ Started("dl", i) => i \notin running_downloads /\ tasks'[<<"dl", i>>] = 1
       /\ Started("pv", i) => i \notin running_processing /\ tasks'[<<"pv", i>>] = 1]_vars

\* C2: a pending row whose download task was started by an earlier tick and has not
\* run yet, so that the next tick scans the same pending row again.
C2_Witness ==
  \E i \in Ids :
    /\ status[i] = PENDING
    /\ i \in running_downloads
    /\ pc[<<"dl", i>>] = "queued"
    /\ Cardinality(running_downloads) < DOWNLOAD_CONCURRENCY

\* C3: while the pause set by the blocked failures has not passed, no task issues a
\* downloader call.
C3_NoCallWhilePaused ==
  [][\A t \in Tasks :
       pc'[t] = "downloading" /\ pc[t] # "downloading"
         => downloads_paused_until' = None \/ downloads_paused_until' <= 0]_vars

\* C4: the supervisor changes the stage of a row only when its id is in neither
\* running set.
C4_SupervisorSparesRunning ==
  [][Tick => \A i \in Ids :
       status'[i] # status[i] => i \notin running_downloads \cup running_processing]_vars

\* C5: no step starts a task for a row whose stored stage, as the scan of that tick
\* reads it, is completed, failed or unavailable.
C5_NoTerminalStart ==
  [][\A i \in Ids : Started("dl", i) \/ Started("pv", i) => status'[i] \notin Terminal]_vars

\* C5: a tick has started a task while a failed row and a completed row were stored.
C5_Witness ==
  \E i, j, k \in Ids :
    /\ status[i] = FAILED /\ tasks[<<"dl", i>>] = 0 /\ tasks[<<"pv", i>>] = 0
    /\ status[j] = COMPLETED /\ tasks[<<"dl", j>>] = 0 /\ tasks[<<"pv", j>>] = 0
    /\ pc[<<"dl", k>>] = "queued" \/ pc[<<"pv", k>>] = "queued"

\* C6: the supervisor marks a downloading row older than the base timeout failed, with
\* an error message, and never makes a downloading row pending.
C6_StuckDownloadFails ==
  [][Tick => \A i \in Ids : status[i] = DOWNLOADING =>
       /\ time_since_update[i] > BASE_STUCK_TASK_TIMEOUT
            => status'[i] = FAILED /\ error_message'[i] = "download_stuck"
       /\ status'[i] # PENDING]_vars

\* C6: the supervisor has marked a stuck download failed.
C6_Witness ==
  \E i \in Ids : status[i] = FAILED /\ error_message[i] = "download_stuck"

C8_TimeoutFormula ==
  timeout_out # None =>
    LET d == probe_in IN
    /\ \E i \in Ids : d = (IF HasWav(i) THEN audio_duration[video_id[i]] ELSE 0)
    /\ d > 0 /\ d <= 360 => timeout_out = 7200
    /\ d >= 360 /\ d <= 8280 => timeout_out = 10 * d + 3600
    /\ d >= 8280 => timeout_out = 86400
    /\ d = 600 => timeout_out = 9600
    /\ d = 0 => timeout_out = 21600
    /\ d > 0 => \A e \in Durations : 0 < e /\ e <= d => TranscriptionTimeout(e) <= timeout_out

\* C8: the timeout of a ten-minute recording has been computed.
C8_Witness == probe_in = 600 /\ timeout_out = 9600

\* C9 as stated: once more requests than workers have been put, exactly N requests
\* are in flight.
C9_ExactlyN ==
  Len(put_log) > Cardinality(Workers) => Cardinality(InFlight) = Cardinality(Workers)

\* C9: at most N requests are in flight; a request waits in the queue only while
\* every worker is busy or a worker woken for it has yet to resume; and a worker
\* whose request returns while a request with a WAV is queued begins the POST of the
\* first such request in the same step.
C9_WorkConserving ==
  [][/\ Cardinality(InFlight') <= Cardinality(Workers)
     /\ Len(runner_pending_queue')
          > Cardinality({w \in Workers : runner_worker'[w] = "woken"})
          => \A w \in Workers : runner_worker'[w] # "waiting"
     /\ \A w \in Workers :
          /\ runner_worker[w] \in {"posting", "polling"}
          /\ runner_future'[runner_request[w]] \in {"result", "failed"}
          /\ \E k \in 1 .. Len(runner_pending_queue) : HasWav(runner_pending_queue[k])
          => /\ runner_worker'[w] = "posting"
             /\ Len(post_log') = Len(post_log) + 1
             /\ runner_request'[w] = post_log'[Len(post_log')]
             /\ runner_request'[w] = SelectSeq(runner_pending_queue, HasWav)[1]
             /\ UNCHANGED <<running_downloads, running_processing, tasks, put_log>>]_vars

\* C9: with two workers, the first request has returned and its worker is posting the
\* third one while the second is still in flight.
C9_Witness ==
  /\ Cardinality(Workers) = 2
  /\ Len(post_log) = 3
  /\ Cardinality(InFlight) = 2
  /\ \E i \in Ids : runner_future[i] \in {"result", "failed"} \/ pc[<<"pv", i>>] = "format"

\* C10: the requests are POSTed in the order in which they were put: the POSTs begun
\* so far are the requests taken from the queue so far, in put order, without those
\* that have no WAV.
C10_PostOrder ==
  post_log =
    SelectSeq(SubSeq(put_log, 1, Len(put_log) - Len(runner_pending_queue)), HasWav)

\* C10: with two workers, two POSTs have begun out of three requests put.
C10_Witness ==
  /\ Cardinality(Workers) = 2
  /\ Len(put_log) = 3
  /\ Len(post_log) = 2

\* C11: when generate_summary raises for a summarizing row, the executor leaves the
\* row in summarizing, with an error message.
C11_LlmErrorKeepsSummarizing ==
  [][\A i \in Ids :
       /\ pc[<<"pv", i>>] = "summary"
       /\ pc'[<<"pv", i>>] \notin {"summary", "keywords"}
       /\ status[i] = SUMMARIZING
       => status'[i] = SUMMARIZING /\ error_message'[i] # "none"]_vars

\* C12: in every stored state the progress of a row lies in the band of its stage:
\* downloading 0-25, converting 25-50, transcribing 50-90, summarizing 95-100.
C12_ProgressInBand ==
  \A i \in Ids :
    /\ status[i] = DOWNLOADING => progress[i] \in 0 .. 25
    /\ status[i] = CONVERTING => progress[i] \in 25 .. 50
    /\ status[i] = TRANSCRIBING => progress[i] \in 50 .. 90
    /\ status[i] = SUMMARIZING => progress[i] \in 95 .. 100

\* C13: while a row stays in its stage and its executor keeps running, no step lowers
\* its progress.
C13_ProgressMonotone ==
  [][\A i \in Ids :
       /\ status'[i] = status[i]
       /\ \E pool \in Pools : /\ pc[<<pool, i>>] \notin {"idle", "queued"}
                              /\ pc'[<<pool, i>>] \notin {"idle", "queued"}
       => progress'[i] >= progress[i]]_vars

\* C14: in every reachable state a completed row has progress 100 and a completed_at.
C14_CompletedIsFull ==
  \A i \in Ids : status[i] = COMPLETED => progress[i] = 100 /\ completed_at[i]

\* The suspension points at which a converter, ASR or LLM call is in flight.
CapabilityCalls ==
  {"format_subtitle", "converting", "pipeline", "asr", "runner_wait", "format", "summary",
   "keywords"}

\* C15: for a playlist member no executor ever waits on the converter, ASR or the LLM,
\* its row never enters converting, transcribing or summarizing, and an executor that
\* ends after a successful download or an adoption leaves it completed with progress
\* 100.
C15_PlaylistShortCircuit ==
  [][\A i \in playlist_items : \A pool \in Pools :
       LET t == <<pool, i>> IN
       /\ pc'[t] \notin CapabilityCalls
       /\ status'[i] \in {CONVERTING, TRANSCRIBING, SUMMARIZING} => status'[i] = status[i]
       /\ /\ \/ pc[t] \in {"downloading", "thumbnail", "thumbnail_sub"}
             \/ pool = "pv" /\ pc[t] = "queued" /\ status[i] \notin Terminal
          /\ pc'[t] \in {"idle", "queued"}
          /\ tasks'[t] < tasks[t]
          /\ status'[i] \notin {FAILED, UNAVAILABLE}
          /\ video_id[i] \in video_file'
          => status'[i] = COMPLETED /\ progress'[i] = 100 /\ completed_at'[i]]_vars

\* Both members were completed, row 2 by process_video_task from a later stage.
C15_Witness ==
  /\ {1, 2} \subseteq playlist_items
  /\ \A i \in {1, 2} : status[i] = COMPLETED /\ progress[i] = 100 /\ tasks[<<"pv", i>>] = 0
  /\ video_id[1] \in video_file
  /\ running_processing = {} /\ running_downloads = {}
  /\ status[3] = COMPLETED

\* The suspension points of an executor that is in, or waiting at the gate for, a
\* downloader call.
DownloadCalls == {"wait_paused", "wait_rate_lock", "spacing_sleep", "downloading"}

\* C16: an executor never calls the downloader when the media file of the row's video
\* id exists, never calls the converter when <video_id>.wav exists, and never calls ASR
\* when a transcript that is not the placeholder exists.
C16_NoRepeatedCapability ==
  [][\A t \in Tasks :
       LET i == t[2] IN
       /\ pc[t] = "queued" /\ pc'[t] \in DownloadCalls => video_id[i] \notin video_file
       /\ pc[t] # "converting" /\ pc'[t] = "converting" => video_id[i] \notin wav_file
       /\ pc[t] \notin {"pipeline", "runner_wait"} /\ pc'[t] \in {"pipeline", "runner_wait"}
            => transcript'[i] # "text"]_vars

\* The stages a finished run of the executor can leave behind: download_only_task ends
\* in converting, completed, failed or unavailable, or leaves a later stage as it found
\* it; process_video_task ends in completed, failed or unavailable.
Produced(pool) == IF pool = "dl" THEN VideoStatus \ {PENDING, DOWNLOADING} ELSE Terminal

\* C17: an executor that is run on a row in a stage its own run leaves behind ends at
\* once, without a capability call, and leaves stage, progress, transcript and
\* error_message as they are.
C17_Idempotent ==
  [][\A t \in Tasks :
       LET i == t[2] IN
       /\ pc[t] = "queued"
       /\ pc'[t] # "queued" \/ tasks'[t] < tasks[t]
       /\ status[i] \in Produced(t[1])
       => /\ tasks'[t] < tasks[t]
          /\ status'[i] = status[i] /\ progress'[i] = progress[i]
          /\ transcript'[i] = transcript[i] /\ error_message'[i] = error_message[i]]_vars

\* The step is an executor's capability call, or its lookup at line 600, raising an
\* exception whose message is of the given kind.
Raised(t, kind) ==
  \/ DownloadDone(t, kind, FALSE)
  \/ /\ kind = "error"
     /\ t[1] = "pv"
     /\ \/ PvStart(t[2]) /\ ~settings.unavailable_declared
        \/ PvConvertDone(t[2], FALSE)
        \/ PvPipelineDone(t[2], "error")
        \/ PvAsrDone(t[2], FALSE)
        \/ PvSummaryDone(t[2], FALSE)

\* C18: when an exception escapes an executor, the row ends in unavailable if the
\* message is a membership-only message and in failed otherwise, and error_message
\* holds the message.
C18_ExceptionOutcome ==
  [][\A t \in Tasks : \A kind \in DownloadOutcomes \ {"ok"} :
       Raised(t, kind)
       => /\ status'[t[2]] = IF kind = "membership" THEN UNAVAILABLE ELSE FAILED
          /\ error_message'[t[2]] = kind]_vars

\* C19: the step that finds transcription unavailable stores the placeholder transcript
\* and takes the executor on to the summary with the row not failed, and an executor
\* that goes into the summary with the placeholder ends with the row completed.
C19_UnavailableStillCompletes ==
  [][\A i \in Ids :
       LET t == <<"pv", i>> IN
       /\ transcript'[i] = "sentinel" /\ transcript[i] # "sentinel"
            => pc'[t] = "summary" /\ status'[i] # FAILED /\ progress'[i] >= 90
       /\ /\ pc[t] \in {"summary", "keywords"}
          /\ transcript[i] = "sentinel"
          /\ tasks'[t] < tasks[t]
          => status'[i] = COMPLETED]_vars

\* A step in which the pause is looked at: worker_loop's pass (line 1429), a task
\* running into the gate, or a task woken in _wait_if_downloads_paused.
GateCheck ==
  \/ Tick
  \/ \E t \in Tasks :
       \/ GateWake(t)
       \/ pc[t] = "queued" /\ pc'[t] \in DownloadCalls

\* C20: a gate check that finds the pause expired leaves paused_until empty and the
\* counter at 0; the counter grows by one per blocked failure, stays below the
\* threshold while no pause is set, and a pause is set only by the failure that brings
\* it up to the threshold.
C20_ExpiredPauseResets ==
  [][/\ PauseExpired /\ GateCheck
          => downloads_paused_until' = None /\ blocked_download_failures' = 0
     /\ blocked_download_failures' > blocked_download_failures
          => blocked_download_failures' = blocked_download_failures + 1
     /\ downloads_paused_until = None
          => blocked_download_failures < Max(1, settings.queue_blocked_threshold)
     /\ downloads_paused_until = None /\ downloads_paused_until' # None
          => /\ blocked_download_failures' = blocked_download_failures + 1
             /\ blocked_download_failures' >= Max(1, settings.queue_blocked_threshold)]_vars
\* Rows 2 and 3 failed as blocked and no download ever succeeded, so the pause was set
\* at the second failure; it has expired and was cleared, and one failure since then
\* has not paused the downloads again.
C20_Witness ==
  /\ status[2] = FAILED /\ error_message[2] = "blocked"
  /\ status[3] = FAILED /\ error_message[3] = "blocked"
  /\ video_file = {}
  /\ settings.queue_blocked_threshold = 2
  /\ downloads_paused_until = None
  /\ blocked_download_failures = 1

\* C21: with a spacing configured, a task comes out of _wait_for_download_spacing only
\* when no download start is recorded yet or the last one is at least min_interval
\* old, and its own start is recorded as the last one.
C21_StartsSpaced ==
  [][\A t \in Tasks :
       /\ settings.queue_download_min_interval_seconds > 0
       /\ pc[t] # "downloading" /\ pc'[t] = "downloading"
       => /\ \/ last_download_started_at = None
             \/ last_download_started_at >= settings.queue_download_min_interval_seconds
          /\ last_download_started_at' = 0]_vars
\* All three tasks have passed the spacing, the last of them just now, after two of
\* them waited at the same time.
C21_Witness ==
  /\ settings.queue_download_min_interval_seconds > 0
  /\ \A i \in Ids : tasks[<<"dl", i>>] > 0 /\ pc[<<"dl", i>>] \in {"downloading", "thumbnail", "idle"}
  /\ pc[<<"dl", 1>>] = "downloading"
  /\ last_download_started_at = 0
  /\ download_rate_lock = NoLock /\ download_rate_waiters = <<>>

\* The rows the download pool reads as pending in this tick, and those of them that
\* have no download task.
PendingRows == {i \in Ids : SupervisedStatus(i) = PENDING}
WaitingRows == PendingRows \ running_downloads
OneSlotFree ==
  DOWNLOAD_CONCURRENCY - Cardinality(running_downloads) = 1 /\ PauseRemaining = 0

\* C22: a tick with one free download slot and no pause starts the download task of
\* the newest waiting pending row (created_at, then id) and of no other row, and no
\* tick starts a row while a newer pending row is left waiting.
C22_NewestFirst ==
  [][Tick =>
       /\ OneSlotFree /\ WaitingRows # {}
            => \E i \in WaitingRows :
                 /\ \A j \in WaitingRows \ {i} : PendingBefore(i, j)
                 /\ {j \in Ids : Started("dl", j)} = {i}
       /\ \A i \in Ids : Started("dl", i)
            => \A j \in WaitingRows : PendingBefore(j, i) => Started("dl", j)]_vars

\* C23: no user has two video records with the same URL.
C23_OneItemPerUrl ==
  \A k \in Users \X VideoUrls : video_urls[k] <= 1

\* C24: no two items of the auto playlist have the same position.
C24_PositionsDistinct ==
  \A p \in Positions : playlist_positions[p] <= 1

\* The channel a resolver pass that is at its last subscription has resolved row s
\* to without finding an existing row (0: none), the last outcome being outcome.
PassChannel(s, outcome) ==
  IF s = Head(resolver.subs).id
    THEN (IF outcome = "ok" THEN ChannelOf(Head(resolver.subs).channel_url) ELSE 0)
    ELSE resolver.set_channel[s]
HasChannel(s, channel_id) ==
  \E r \in SubIds \ {s} :
    /\ Present(r)
    /\ subscriptions[r].user_id = subscriptions[s].user_id
    /\ subscriptions[r].channel_id = channel_id

\* C25: no two rows of a user have the same channel_id, and when a resolver pass
\* ends, every row it resolved is deleted if the user has another row of that channel
\* (which is left as it is), and is resolved with that channel otherwise.
C25_OneRowPerChannel ==
  [][/\ ChannelUnique(subscriptions')
     /\ \A outcome \in {"ok", "none"} :
          ResolverResolved(outcome) /\ Tail(resolver.subs) = <<>>
          => \A s \in SubIds :
               LET channel_id == PassChannel(s, outcome) IN
               channel_id # 0 /\ Present(s)
               => IF HasChannel(s, channel_id)
                    THEN /\ subscriptions'[s].status = "deleted"
                         /\ \A r \in SubIds \ {s} :
                              subscriptions[r].channel_id = channel_id
                              => subscriptions'[r] = subscriptions[r]
                    ELSE /\ subscriptions'[s].status = "resolved"
                         /\ subscriptions'[s].channel_id = channel_id]_vars

\* The present rows of user u with URL url.
RowsOf(u, url) ==
  {s \in SubIds : Present(s) /\ subscriptions[s].user_id = u /\ subscriptions[s].channel_url = url}
\* C26: a subscribe for a URL the user has a row for creates and changes nothing and
\* answers with that row; one for a URL the user has no row for creates exactly one
\* pending row.
C26_SubscribeOnce ==
  [][\A u \in Users, url \in ChannelUrls :
       Subscribe(u, url)
       => IF RowsOf(u, url) # {}
            THEN /\ subscriptions' = subscriptions
                 /\ subscribe_response'.code = 200
                 /\ subscribe_response'.id \in RowsOf(u, url)
            ELSE /\ \E s \in SubIds :
                      /\ subscriptions' = [subscriptions EXCEPT ![s] = subscriptions'[s]]
                      /\ subscriptions[s].status = "free"
                      /\ subscriptions'[s].status = "pending"
                      /\ subscribe_response' = [code |-> 201, id |-> s]
                 /\ Cardinality({s \in SubIds :
                        /\ subscriptions'[s].status \in {"pending", "resolved"}
                        /\ subscriptions'[s].user_id = u
                        /\ subscriptions'[s].channel_url = url}) = 1]_vars
\* The last subscribe was answered with the existing row, which is resolved and the
\* user's only row with that URL, while the other user has a row with the same URL.
C26_Witness ==
  /\ subscribe_response.code = 200
  /\ LET s == subscribe_response.id IN
       /\ subscriptions[s].status = "resolved"
       /\ RowsOf(subscriptions[s].user_id, subscriptions[s].channel_url) = {s}
       /\ \E r \in SubIds \ {s} :
            /\ Present(r)
            /\ subscriptions[r].user_id # subscriptions[s].user_id
            /\ subscriptions[r].channel_url = subscriptions[s].channel_url

\* C27: in every reachable state downloaded_at of a row is set exactly when a media file
\* of the row's video id is in the storage directory, rows sharing a video id included.
C27_DownloadedIffFile ==
  \A i \in Ids : downloaded_at[i] <=> video_id[i] \in video_file

\* C28: from a start of the worker with empty running sets, every row left in
\* downloading, converting, transcribing or summarizing reaches completed, failed or
\* unavailable at some time, given that ticks keep coming, awaited calls return, the
\* pause ends and no row is added.
C28_EventuallyTerminal ==
  \A i \in Ids : status[i] \in InProgress ~> status[i] \in Terminal

\* Every row that was left behind is in a terminal stage and no executor is alive.
C28_Witness ==
  /\ \A i \in Ids : status[i] \in Terminal
  /\ \A t \in Tasks : pc[t] = "idle"
  /\ status[1] = COMPLETED /\ error_message[1] = "stuck_reset"
  /\ status[2] = FAILED /\ error_message[2] = "download_stuck"

\* A step changes the status of job j of the runner from a to b.
JobMoves ==
  {<<"none", "pending">>, <<"pending", "processing">>, <<"processing", "completed">>,
   <<"processing", "failed">>, <<"pending", "failed">>}

\* C29: the status of a runner job only moves pending -> processing -> completed or
\* failed, or pending -> failed when no device can be picked; the status and the
\* result of a completed or failed job never change again.
C29_JobStatusMoves ==
  [][\A j \in JobIds :
       /\ jobs'[j].status # jobs[j].status
            => <<jobs[j].status, jobs'[j].status>> \in JobMoves
       /\ jobs[j].status = "pending" /\ jobs'[j].status = "failed"
            => Devices \subseteq disabled_devices
       /\ jobs[j].status \in {"completed", "failed"} => jobs'[j] = jobs[j]]_vars

\* A job has completed with its text, one has failed while processing, and one has
\* failed while pending because every device was disabled.
C29_Witness ==
  /\ \E j \in JobIds : jobs[j].status = "completed" /\ jobs[j].result = "text"
  /\ \E j \in JobIds : jobs[j].status = "failed" /\ jobs[j].error = "invalid_argument"
  /\ \E j \in JobIds : jobs[j].status = "failed" /\ jobs[j].error = "no_gpu"

\* The dispatcher gives device d to a job in this step.
Assigned(d) ==
  \E j \in JobIds : job_run[j].pc = "idle" /\ job_run'[j].pc = "submitted"
                    /\ job_run'[j].device_id = d

\* C30: after a CUDA "invalid argument" error on device d, d is in the disabled set
\* and the round-robin selector gives d to no later job.
C30_DisabledAndSkipped ==
  [][\A d \in unhealthy_log : d \in disabled_devices /\ ~Assigned(d)]_vars

\* The second half of C30 alone: no job is given a device that had the error.
NoLaterJobOnFailedDevice ==
  [][\A d \in unhealthy_log : ~Assigned(d)]_vars

\* The capability an executor awaits, and the one it awaits next, in the full pipeline.
PipelineOrder ==
  {<<"queued", "downloading">>, <<"downloading", "thumbnail">>,
   <<"thumbnail", "converting">>, <<"converting", "pipeline">>, <<"pipeline", "asr">>,
   <<"asr", "format">>, <<"format", "summary">>, <<"summary", "keywords">>,
   <<"keywords", "idle">>}

\* The executor of row i goes from one capability to the next of the full pipeline,
\* stores what format_transcript returned, and ends with the row completed.
FullPipelineStep(i) ==
  LET t == <<"pv", i>> IN
  /\ <<pc[t], pc'[t]>> \in PipelineOrder
  /\ \A tr \in {"text", "empty"} : PvFormatDone(i, tr) => transcript'[i] = tr
  /\ pc'[t] = "idle" => /\ status'[i] = COMPLETED /\ progress'[i] = 100
                        /\ transcript'[i] \in {"text", "empty"}
                        /\ transcript'[i] = transcript[i]

\* The executor of row i takes a step of a run that began on the pending row.
PendingRunStep(i) ==
  LET t == <<"pv", i>> IN
  /\ pc'[t] # pc[t]
  /\ pc[t] # "idle"
  /\ pc[t] = "queued" => status[i] = PENDING

C32_FailedJobEndsRequest ==
  [][\A w \in Workers :
       /\ runner_worker[w] = "polling"
       /\ runner_job[w] = "failed"
       /\ PollProgress(w, 0) \/ \E outcome \in PollOutcomes : PollDone(w, outcome)
       => /\ runner_future'[runner_request[w]] = "failed"
          /\ runner_worker'[w] # "polling"]_vars

\* C33: a row that the supervisor marked failed as a stuck download is not moved to
\* converting or completed by an executor that was still waiting or downloading; it
\* leaves failed only by the operator's retry.
C33_StuckDownloadStaysFailed ==
  [][\A i \in Ids :
       /\ status[i] = FAILED
       /\ error_message[i] = "download_stuck"
       => /\ status'[i] \notin {CONVERTING, COMPLETED}
          /\ status'[i] \in {FAILED, UNAVAILABLE} \/ RetryVideo(i)]_vars

\* The rows a tick could start in the heavy pool: ready after the supervisor's pass and
\* in neither running set after the download pool was scheduled.
HeavyWaiting ==
  {i \in Ids : /\ SupervisedStatus(i) \in ReadyStatuses
               /\ i \notin running_processing
               /\ i \notin running_downloads
               /\ i \notin DownloadStarts([j \in Ids |-> SupervisedStatus(j)])}

\* C34: with a heavy pool of two or more slots, a tick that finds a heavy slot free
\* and a ready row in neither running set starts a task for such a row.
C34_FreeSlotIsUsed ==
  [][/\ Tick
     /\ PROCESS_CONCURRENCY >= 2
     /\ Cardinality(running_processing) < PROCESS_CONCURRENCY
     /\ HeavyWaiting # {}
     => \E i \in HeavyWaiting : i \in running_processing' /\ tasks'[<<"pv", i>>] > tasks[<<"pv", i>>]]_vars

\* The executors of a pool that hold a slot of its semaphore.
Executing(pool) == {i \in Ids : pc[<<pool, i>>] \notin {"idle", "queued"}}

\* C35: at most DOWNLOAD_CONCURRENCY download executors and at most
\* PROCESS_CONCURRENCY heavy executors run at the same time, and neither running set
\* holds more ids than its pool has slots.
C35_PoolsWithinCapacity ==
  /\ Cardinality(Executing("dl")) <= DOWNLOAD_CONCURRENCY
  /\ Cardinality(Executing("pv")) <= PROCESS_CONCURRENCY
  /\ Cardinality(running_downloads) <= DOWNLOAD_CONCURRENCY
  /\ Cardinality(running_processing) <= PROCESS_CONCURRENCY

\* C35: a heavy pool of two slots is full, every slot held by an executor, while the
\* third row is being downloaded.
C35_Witness ==
  /\ PROCESS_CONCURRENCY = 2
  /\ Cardinality(Executing("dl")) = 1
  /\ Cardinality(Executing("pv")) = PROCESS_CONCURRENCY
  /\ running_downloads = Executing("dl")
  /\ running_processing = Executing("pv")

\* The task of t ends in this step.
TaskEnds(t) == pc[t] # "idle" /\ pc'[t] = "idle"

\* The running set of t's pool.
RunningSet(t) == IF t[1] = "dl" THEN running_downloads ELSE running_processing

\* C36 as stated: whenever a task ends, by return, early return, exception or
\* cancellation, its id is out of its running set; and an id is in a running set only
\* while a task for it is queued or executing.
C36_DiscardOnEveryExit ==
  [][\A t \in Tasks :
       /\ TaskEnds(t) => t[2] \notin RunningSet(t)'
       /\ t[2] \in RunningSet(t)' => pc'[t] # "idle"]_vars

\* C36, amended: the same for a task that ends after it got its slot; a task cancelled
\* while it waits for its slot leaves its id in the set, which happens only after the
\* scheduler loop has stopped.
C36_DiscardOnExitWithSlot ==
  [][\A t \in Tasks :
       /\ TaskEnds(t) /\ pc[t] # "queued" => t[2] \notin RunningSet(t)'
       /\ TaskEnds(t) /\ ~stopping' => t[2] \notin RunningSet(t)'
       /\ t[2] \in RunningSet(t)' /\ ~stopping' => pc'[t] # "idle"]_vars

\* C36: the process was stopped while row 1 was being downloaded and rows 2 and 3 were
\* in the heavy pool; every task has ended and both running sets are empty.
C36_Witness ==
  /\ stopping
  /\ \A t \in Tasks : pc[t] = "idle"
  /\ running_downloads = {} /\ running_processing = {}
  /\ status[1] = DOWNLOADING /\ status[2] \in ReadyStatuses /\ status[3] \in ReadyStatuses

\* The futures that have been completed.
Done == {"result", "failed"}

\* C37: a future is completed only once, by the worker that serves its request, with
\* a result or with None; the worker that completed it takes the next queued request
\* in the same step or, with nothing queued, waits for one; and every request that was
\* put has its future completed, also after a failed POST, a failed job or the timeout.
C37_FutureCompletedOnce ==
  /\ [][\A i \in Ids :
          /\ runner_future[i] \in Done => runner_future'[i] \in {runner_future[i], "none"}
          /\ runner_future[i] \notin Done /\ runner_future'[i] \in Done
             => /\ runner_future[i] = "pending"
                /\ \/ \E w \in Workers :
                        /\ runner_request[w] = i
                        /\ runner_worker[w] \in {"posting", "polling"}
                        /\ IF \E k \in 1 .. Len(runner_pending_queue) :
                                HasWav(runner_pending_queue[k])
                             THEN /\ runner_worker'[w] = "posting"
                                  /\ runner_request'[w]
                                       = SelectSeq(runner_pending_queue, HasWav)[1]
                             ELSE runner_worker'[w] = "waiting"
                   \/ ~HasWav(i) /\ runner_future'[i] = "failed"]_vars
  /\ \A i \in Ids : runner_future[i] = "pending" ~> runner_future[i] \in Done

\* C37: three requests were put; one POST failed, a job completed and its future holds
\* the result while another future was completed with None, and a worker is polling a
\* job that failed at the runner.
C37_Witness ==
  /\ Len(put_log) = 3
  /\ Len(accept_log) < Len(post_log)
  /\ \E i, j \in Ids : runner_future[i] = "result" /\ runner_future[j] = "failed"
  /\ \E w \in Workers : runner_worker[w] = "polling" /\ runner_job[w] = "failed"

\* C38: while downloads are paused a blocked failure adds one to the counter and
\* leaves the end of the pause where it was, and a successful download sets the counter
\* to zero and leaves the end of the pause where it was.
C38_PauseWindowFixed ==
  [][/\ downloads_paused_until # None
     /\ PauseRemaining > 0
     => \A t \in Tasks :
          /\ DownloadDone(t, "blocked", FALSE)
             => /\ blocked_download_failures' = blocked_download_failures + 1
                /\ downloads_paused_until' = downloads_paused_until
          /\ (\E sub \in BOOLEAN : DownloadDone(t, "ok", sub))
             => /\ blocked_download_failures' = 0
                /\ downloads_paused_until' = downloads_paused_until]_vars

\* C38: downloads are paused, half of the window is over, and a second blocked failure
\* has arrived during it.
C38_Witness ==
  /\ downloads_paused_until # None
  /\ downloads_paused_until = settings.queue_blocked_pause_seconds - ClockStep
  /\ blocked_download_failures = Max(1, settings.queue_blocked_threshold) + 1

\* C39: the service of a device is dropped only when the device has no job in flight,
\* so a job that is transcribing always has the service of its device, and no active
\* count is below zero.
C39_ReleasedOnlyWhenIdle ==
  [][\A d \in Devices :
       /\ whisper_services[d] # "none" /\ whisper_services'[d] = "none"
          => /\ active_jobs_per_device'[d] = 0
             /\ \A j \in JobIds :
                  job_run'[j].device_id = d => job_run'[j].pc \notin {"pipeline", "transcribe"}
       /\ active_jobs_per_device'[d] >= 0]_vars

\* C40: a downloader call that a download executor has issued is never kept waiting
\* by blocking work of the heavy pool: whenever a task of the download pool awaits its
\* downloader call, either a thread of the executor is running that call, or no thread
\* is running a conversion, an audio pipeline or an in-process transcription.
HeavyOnThreads == {u \in download_executor.threads : u[1] = "pv" /\ pc[u] \in HeavyPcs}
C40_DownloadsHaveThreads ==
  \A t \in Tasks :
    t[1] = "dl" /\ pc[t] = "downloading" => OnThread(t) \/ HeavyOnThreads = {}

TypeOK ==
  /\ status \in [Ids -> VideoStatus]
  /\ stopping \in BOOLEAN
  /\ download_executor.threads \subseteq Tasks
  /\ Cardinality(download_executor.threads) <= DOWNLOAD_CONCURRENCY
  /\ \A k \in 1 .. Len(download_executor.work_queue) :
       download_executor.work_queue[k] \in Tasks \ download_executor.threads
  /\ runner_job \in [Workers -> {"none", "pending", "completed", "failed"}]
  /\ \A i \in Ids : progress[i] \in 0 .. 100 /\ time_since_update[i] >= 0
  /\ running_downloads \subseteq Ids
  /\ running_processing \subseteq Ids
  /\ completed_at \in [Ids -> BOOLEAN]
  /\ downloaded_at \in [Ids -> BOOLEAN]

====
